---- MODULE Spec2Model ----
(***************************************************************************)
(* CareerBoost AI: the shared logic module (utils.py) and the two          *)
(* application shells (app.py, streamlit_app.py).                          *)
(*                                                                         *)
(* Python strings are TLA+ strings.  A character is a string of length 1;  *)
(* the character at index i of s is SubSeq(s, i, i) (1-based).  The texts  *)
(* of the model are over the alphabet AsciiOrder (tab, newline and the     *)
(* printable ASCII characters but the backquote, which a TLA+ string       *)
(* cannot hold), for which str.lower, str.title, str.strip, str.split and *)
(* the re character classes are modelled below.  The                       *)
(* non-ASCII decorations of the literals of the code (dashes, bullets,     *)
(* emoji) are written as ASCII in the literals here.                       *)
(***************************************************************************)
EXTENDS Integers, Sequences, FiniteSets, TLC

(***************************************************************************)
(* Characters and the str methods                                          *)
(***************************************************************************)

Lowercase == "abcdefghijklmnopqrstuvwxyz"
Uppercase == "ABCDEFGHIJKLMNOPQRSTUVWXYZ"
Digits == "0123456789"
Whitespace == " \t\n"

\* The characters in code-point order (the order sorted() compares by).
AsciiOrder ==
    "\t\n !\"#$%&'()*+,-./0123456789:;<=>?@ABCDEFGHIJKLMNOPQRSTUVWXYZ[\\]^_abcdefghijklmnopqrstuvwxyz{|}~"

Min(a, b) == IF a < b THEN a ELSE b
Max(a, b) == IF a > b THEN a ELSE b

CharAt(s, i) == IF 1 <= i /\ i <= Len(s) THEN SubSeq(s, i, i) ELSE ""

\* s[a:b] with 0-based, end-exclusive Python indices 0 <= a, b.
Slice(s, a, b) == IF a >= Min(b, Len(s)) THEN "" ELSE SubSeq(s, a + 1, Min(b, Len(s)))

\* sub in s
Contains(s, sub) ==
    \E i \in 1..(Len(s) - Len(sub) + 1) : SubSeq(s, i, i + Len(sub) - 1) = sub

\* sub occurs in s starting at (1-based) index i
StartsAt(s, i, sub) ==
    1 <= i /\ i + Len(sub) - 1 <= Len(s) /\ SubSeq(s, i, i + Len(sub) - 1) = sub

InClass(c, class) == Len(c) = 1 /\ Contains(class, c)

PosIn(c, class) == CHOOSE i \in 1..Len(class) : SubSeq(class, i, i) = c

Ord(c) == PosIn(c, AsciiOrder)

IsAlpha(c) == InClass(c, Lowercase) \/ InClass(c, Uppercase)
IsDigit(c) == InClass(c, Digits)
IsSpace(c) == InClass(c, Whitespace)
\* \w of the re module
IsWordChar(c) == IsAlpha(c) \/ IsDigit(c) \/ c = "_"

LowerChar(c) == IF InClass(c, Uppercase) THEN CharAt(Lowercase, PosIn(c, Uppercase)) ELSE c
UpperChar(c) == IF InClass(c, Lowercase) THEN CharAt(Uppercase, PosIn(c, Lowercase)) ELSE c

\* str.lower, character by character (the halves keep the recursion shallow)
RECURSIVE Lower(_)
Lower(s) ==
    IF Len(s) <= 1 THEN LowerChar(s)
    ELSE Lower(SubSeq(s, 1, Len(s) \div 2)) \o Lower(SubSeq(s, Len(s) \div 2 + 1, Len(s)))

\* str.title: a letter that follows a letter is lower-cased, any other letter
\* is upper-cased.
TitleChar(s, i) ==
    IF ~IsAlpha(CharAt(s, i)) THEN CharAt(s, i)
    ELSE IF IsAlpha(CharAt(s, i - 1)) THEN LowerChar(CharAt(s, i))
    ELSE UpperChar(CharAt(s, i))

RECURSIVE TitleRange(_, _, _)
TitleRange(s, lo, hi) ==
    IF lo > hi THEN ""
    ELSE IF lo = hi THEN TitleChar(s, lo)
    ELSE TitleRange(s, lo, (lo + hi) \div 2) \o TitleRange(s, (lo + hi) \div 2 + 1, hi)

Title(s) == TitleRange(s, 1, Len(s))

\* a < b for str: lexicographic by code point
RECURSIVE StrLess(_, _)
StrLess(a, b) ==
    IF b = "" THEN FALSE
    ELSE IF a = "" THEN TRUE
    ELSE IF Head(a) = Head(b) THEN StrLess(Tail(a), Tail(b))
    ELSE Ord(Head(a)) < Ord(Head(b))

\* the k-th least element of a set of integers
KthOf(set, k) == CHOOSE x \in set : Cardinality({ y \in set : y < x }) = k - 1

\* the entries of list at the indices of the set idx, in their order
Pick(list, idx) == [k \in 1..Cardinality(idx) |-> list[KthOf(idx, k)]]

\* sorted(list of str): stable, so the place of an entry is the number of
\* entries that go before it
SortedPlace(list, i) ==
    1 + Cardinality({ j \in 1..Len(list) :
            StrLess(list[j], list[i]) \/ (list[j] = list[i] /\ j < i) })

Sorted(list) ==
    [k \in 1..Len(list) |-> list[CHOOSE i \in 1..Len(list) : SortedPlace(list, i) = k]]

\* str.strip
Strip(s) ==
    LET inked == { i \in 1..Len(s) : ~IsSpace(CharAt(s, i)) }
    IN  IF inked = {} THEN ""
        ELSE SubSeq(s, KthOf(inked, 1), KthOf(inked, Cardinality(inked)))

\* text.split('\n')
SplitLines(s) ==
    LET breaks == { i \in 1..Len(s) : CharAt(s, i) = "\n" }
        Brk(k) == IF k = 0 THEN 0
                  ELSE IF k > Cardinality(breaks) THEN Len(s) + 1
                  ELSE KthOf(breaks, k)
    IN  [k \in 1..(Cardinality(breaks) + 1) |->
            IF Brk(k - 1) + 1 > Brk(k) - 1 THEN "" ELSE SubSeq(s, Brk(k - 1) + 1, Brk(k) - 1)]

\* len(line.split()): the number of maximal runs of non-whitespace
WordCount(s) ==
    Cardinality({ i \in 1..Len(s) :
        ~IsSpace(CharAt(s, i)) /\ (i = 1 \/ IsSpace(CharAt(s, i - 1))) })

\* (l.strip() for l in text.split('\n') if l.strip())
NonBlankLines(text) ==
    LET lines == SplitLines(text)
        NonBlank(l) == l # ""
    IN  SelectSeq([i \in 1..Len(lines) |-> Strip(lines[i])], NonBlank)

\* the set of entries of a list
Range(list) == { list[i] : i \in 1..Len(list) }

\* A slice that keeps the whole list.
TakeAll(list, n) == list

\* list[:n]
Take(list, n) == SubSeq(list, 1, Min(n, Len(list)))

\* The length of the maximal run of characters of `class` that starts at i.
RunLen(s, i, class) ==
    (CHOOSE j \in i..(Len(s) + 1) :
        /\ ~InClass(CharAt(s, j), class)
        /\ \A k \in i..(j - 1) : InClass(CharAt(s, k), class)) - i

\* The end of a match of a pattern is the index after its last character; 0
\* means no match.
\* the least i in from..to with End(i) # 0, or 0
FirstFrom(from, to, End(_)) ==
    IF \E i \in from..to : End(i) # 0
    THEN CHOOSE i \in from..to : End(i) # 0 /\ \A j \in from..(i - 1) : End(j) = 0
    ELSE 0

(***************************************************************************)
(* utils.py: the skill vocabulary and skill extraction                     *)
(***************************************************************************)

SKILL_KEYWORDS == <<
    "python", "java", "javascript", "typescript", "react", "angular", "vue.js",
    "node.js", "express", "next.js", "nuxt", "svelte",
    "sql", "mongodb", "postgresql", "mysql", "redis", "elasticsearch", "cassandra",
    "docker", "kubernetes", "terraform", "ansible",
    "aws", "azure", "gcp", "google cloud",
    "git", "github", "gitlab", "bitbucket", "ci/cd", "jenkins", "github actions",
    "machine learning", "deep learning", "nlp", "computer vision",
    "tensorflow", "pytorch", "scikit-learn", "pandas", "numpy", "matplotlib",
    "html", "css", "sass", "less", "bootstrap", "tailwind css", "material ui",
    "django", "flask", "fastapi", "spring boot", "laravel", "ruby on rails",
    "rest api", "graphql", "microservices", "websocket",
    "agile", "scrum", "kanban", "jira", "confluence",
    "linux", "bash", "shell scripting", "powershell",
    "c++", "c#", ".net", "go", "golang", "rust", "swift", "kotlin",
    "react native", "flutter", "xamarin",
    "kafka", "rabbitmq", "celery", "aws lambda",
    "power bi", "tableau", "excel", "data analysis", "data science",
    "project management", "leadership", "communication", "teamwork",
    "problem solving", "critical thinking", "time management",
    "figma", "adobe xd", "ui/ux", "wireframing", "prototyping",
    "aws s3", "ec2", "dynamodb", "azure devops" >>

\* for kw in SKILL_KEYWORDS: if kw in lower: found.append(kw.title())
FoundSkills(lower, kws) ==
    LET In(kw) == Contains(lower, kw)
        hits == SelectSeq(kws, In)
    IN  [i \in 1..Len(hits) |-> Title(hits[i])]

\* the "deduplicate, preserve order" loop: an entry is kept when no entry
\* before it is equal to it
Deduplicate(found) ==
    Pick(found, { i \in 1..Len(found) : \A j \in 1..(i - 1) : found[j] # found[i] })

\* An extraction that returns the unique skills in vocabulary order.
ExtractSkillsUnsorted(text) == Deduplicate(FoundSkills(Lower(text), SKILL_KEYWORDS))

_extract_skills(text) == Sorted(Deduplicate(FoundSkills(Lower(text), SKILL_KEYWORDS)))

(***************************************************************************)
(* utils.py: the other extraction helpers.  A regular expression is        *)
(* modelled by the match the re module finds: the leftmost start at which  *)
(* the pattern matches and, there, the first match in the order in which   *)
(* the backtracking matcher tries its choices.  Positions are 1-based; the *)
(* end of a match is the index after its last character, 0 means no match. *)
(***************************************************************************)

\* `word` at i, case-insensitively: the index after it, or 0
WordEnd(s, i, word) ==
    IF i # 0 /\ i + Len(word) - 1 <= Len(s) /\ Lower(SubSeq(s, i, i + Len(word) - 1)) = word
    THEN i + Len(word) ELSE 0

\* \s* at i (greedy): the index after the run
SkipSpace(s, i) == IF i = 0 THEN 0 ELSE i + RunLen(s, i, Whitespace)

\* a position between two characters is a \b when exactly one of them is a \w
WordBoundary(s, i) == IsWordChar(CharAt(s, i - 1)) # IsWordChar(CharAt(s, i))

\* --- _extract_name ---

HeaderWords == <<"experience", "education", "skills", "summary", "objective", "contact">>

\* A test that finds a header word anywhere in the line.
HoldsHeaderWord(line) == \E k \in 1..Len(HeaderWords) : Contains(Lower(line), HeaderWords[k])

\* re.match(r'(?i)(experience|education|skills|summary|objective|contact)', line)
LooksLikeHeader(line) == \E k \in 1..Len(HeaderWords) : WordEnd(line, 1, HeaderWords[k]) # 0

NameLine(line) ==
    /\ 2 <= WordCount(line) /\ WordCount(line) <= 4
    /\ ~Contains(line, "@")
    /\ Len(line) > 3
    /\ ~LooksLikeHeader(line)

_extract_name(text) ==
    LET lines == NonBlankLines(text)
        named == { i \in 1..Len(lines) : NameLine(lines[i]) }
    IN  IF named = {} THEN "Professional" ELSE lines[KthOf(named, 1)]

\* --- _extract_email ---

EmailLocalClass == Lowercase \o Uppercase \o Digits \o "._%+-"
EmailDomainClass == Lowercase \o Uppercase \o Digits \o ".-"
Letters == Lowercase \o Uppercase

\* The end of [A-Za-z]{2,}\b after the dot at p: the whole run of letters, at
\* least 2 of them, followed by no \w.
TldEnd(s, p) ==
    LET n == RunLen(s, p + 1, Letters)
    IN  IF CharAt(s, p) = "." /\ n >= 2 /\ ~IsWordChar(CharAt(s, p + 1 + n)) THEN p + 1 + n ELSE 0

\* the greatest p in lo..hi with TldEnd(s, p) # 0 (the greedy domain gives back
\* one character at a time), or 0
LastDot(s, lo, hi) ==
    LET dots == { p \in lo..hi : TldEnd(s, p) # 0 }
    IN  IF dots = {} THEN 0 ELSE KthOf(dots, Cardinality(dots))

\* \b[A-Za-z0-9._%+-]+@[A-Za-z0-9.-]+\.[A-Za-z]{2,}\b at i
EmailEnd(s, i) ==
    LET ln == RunLen(s, i, EmailLocalClass)
        at == i + ln
        dn == RunLen(s, at + 1, EmailDomainClass)
        dot == LastDot(s, at + 2, at + dn)
    IN  IF WordBoundary(s, i) /\ ln >= 1 /\ CharAt(s, at) = "@" /\ dot # 0
        THEN TldEnd(s, dot) ELSE 0

_extract_email(text) ==
    LET End(i) == EmailEnd(text, i)
        i == FirstFrom(1, Len(text), End)
    IN  IF i = 0 THEN "" ELSE SubSeq(text, i, EmailEnd(text, i) - 1)

\* --- _extract_phone ---

PhoneSeparators == "-. \t\n"

\* The concatenation of the lists of a list (by halves).
RECURSIVE Flatten(_)
Flatten(lists) ==
    IF lists = <<>> THEN <<>>
    ELSE IF Len(lists) = 1 THEN lists[1]
    ELSE Flatten(SubSeq(lists, 1, Len(lists) \div 2))
         \o Flatten(SubSeq(lists, Len(lists) \div 2 + 1, Len(lists)))

\* x? for a character class, after each of the positions ps: taken first
OptStep(s, ps, class) ==
    Flatten([k \in 1..Len(ps) |->
        IF InClass(CharAt(s, ps[k]), class) THEN <<ps[k] + 1, ps[k]>> ELSE <<ps[k]>>])

\* the ends of \d{lo,hi} at p: the longest first
DigitEnds(s, p, lo, hi) ==
    LET n == Min(RunLen(s, p, Digits), hi)
    IN  [k \in 1..Max(0, n - lo + 1) |-> p + n + 1 - k]

\* \d{lo,hi} after each of the positions ps
DigitStep(s, ps, lo, hi) == Flatten([k \in 1..Len(ps) |-> DigitEnds(s, ps[k], lo, hi)])

\* (\+?\d{1,3}[\-.\s]?)? at i: the ends in the order tried
CountryEnds(s, i) ==
    OptStep(s, DigitStep(s, OptStep(s, <<i>>, "+"), 1, 3), PhoneSeparators) \o <<i>>

\* (\(?\d{2,4}\)?[\-.\s]?)? at p
AreaEnds(s, p) ==
    OptStep(s, OptStep(s, DigitStep(s, OptStep(s, <<p>>, "("), 2, 4), ")"), PhoneSeparators) \o <<p>>

AreaStep(s, ps) == Flatten([k \in 1..Len(ps) |-> AreaEnds(s, ps[k])])

\* \d{3,4}[\-.\s]?\d{4} after each of the positions ps: the ends of the whole
\* pattern in the order tried
LineEnds(s, ps) == DigitStep(s, OptStep(s, DigitStep(s, ps, 3, 4), PhoneSeparators), 4, 4)

PhoneEnd(s, i) ==
    LET ends == LineEnds(s, AreaStep(s, CountryEnds(s, i)))
    IN  IF ends = <<>> THEN 0 ELSE Head(ends)

_extract_phone(text) ==
    LET End(i) == PhoneEnd(text, i)
        i == FirstFrom(1, Len(text), End)
    IN  IF i = 0 THEN "" ELSE SubSeq(text, i, PhoneEnd(text, i) - 1)

\* --- _extract_experience ---

PlaceholderExperience ==
    <<[title |-> "Professional Experience", description |-> "See CV for details."]>>

\* first `a`, then \s*, then `b`
TwoWordsEnd(s, i, a, b) == WordEnd(s, SkipSpace(s, WordEnd(s, i, a)), b)

\* experience\s*&?\s*history at i
ExperienceHistoryEnd(s, i) ==
    LET p1 == SkipSpace(s, WordEnd(s, i, "experience"))
        p2 == IF p1 # 0 /\ CharAt(s, p1) = "&" THEN p1 + 1 ELSE p1
    IN  WordEnd(s, SkipSpace(s, p2), "history")

\* (?i)(work\s*experience|professional\s*experience|employment|experience\s*&?\s*history)
ExpHeaderEnd(s, i) ==
    IF TwoWordsEnd(s, i, "work", "experience") # 0 THEN TwoWordsEnd(s, i, "work", "experience")
    ELSE IF TwoWordsEnd(s, i, "professional", "experience") # 0
         THEN TwoWordsEnd(s, i, "professional", "experience")
    ELSE IF WordEnd(s, i, "employment") # 0 THEN WordEnd(s, i, "employment")
    ELSE ExperienceHistoryEnd(s, i)

NextSections == <<"education", "skills", "certifications", "projects", "awards">>

\* (?i)\n(education|skills|certifications|projects|awards) at i
NextSectionEnd(s, i) ==
    IF CharAt(s, i) = "\n" /\ \E k \in 1..Len(NextSections) : WordEnd(s, i + 1, NextSections[k]) # 0
    THEN i + 1 ELSE 0

\* len(line) > 8
MinEntryLen == 8
\* line[:120]
MaxTitleLen == 120
\* len(entries) >= 5
MaxEntries == 5
\* len(entries[i + 1]['title']) > 20
MinDescriptionLen == 20

\* the loop that collects the entries: the titles line[:120] of the lines
\* longer than 8, until there are 5 of them
CollectEntries(lines) ==
    LET Long(line) == Len(line) > MinEntryLen
        kept == Take(SelectSeq(lines, Long), MaxEntries)
    IN  [k \in 1..Len(kept) |-> SubSeq(kept[k], 1, Min(MaxTitleLen, Len(kept[k])))]

\* A pairing that takes the next line as the description whatever its length.
RECURSIVE PairUpAnyLength(_, _)
PairUpAnyLength(entries, i) ==
    IF i > Len(entries) THEN <<>>
    ELSE LET desc == IF i + 1 <= Len(entries) THEN entries[i + 1] ELSE ""
         IN  <<[title |-> entries[i], description |-> desc]>>
             \o PairUpAnyLength(entries, IF desc # "" THEN i + 2 ELSE i + 1)

\* the "pair up title / description" loop from index i (1-based)
RECURSIVE PairUp(_, _)
PairUp(entries, i) ==
    IF i > Len(entries) THEN <<>>
    ELSE LET desc == IF i + 1 <= Len(entries) /\ Len(entries[i + 1]) > MinDescriptionLen
                     THEN entries[i + 1] ELSE ""
         IN  <<[title |-> entries[i], description |-> desc]>>
             \o PairUp(entries, IF desc # "" THEN i + 2 ELSE i + 1)

\* text[start : start + next_sec.start() if next_sec else len(text)], for the
\* header found at i
ExperienceChunk(text, i) ==
    LET start == ExpHeaderEnd(text, i) - 1
        rest == SubSeq(text, start + 1, Len(text))
        Sec(k) == NextSectionEnd(rest, k)
        k == FirstFrom(1, Len(rest), Sec)
    IN  IF k # 0 THEN Slice(text, start, start + k - 1) ELSE Slice(text, start, Len(text))

\* An extraction that returns the paired entries without the fallback.
ExtractExperienceNoFallback(text) ==
    LET Hdr(i) == ExpHeaderEnd(text, i)
        i == FirstFrom(1, Len(text), Hdr)
    IN  IF i = 0 THEN <<>>
        ELSE PairUp(CollectEntries(NonBlankLines(ExperienceChunk(text, i))), 1)

_extract_experience(text) ==
    LET Hdr(i) == ExpHeaderEnd(text, i)
        i == FirstFrom(1, Len(text), Hdr)
        paired == PairUp(CollectEntries(NonBlankLines(ExperienceChunk(text, i))), 1)
    IN  IF i = 0 THEN PlaceholderExperience
        ELSE IF paired # <<>> THEN paired ELSE PlaceholderExperience

\* --- _extract_education ---

DegreeKeywords ==
    <<"bachelor", "master", "phd", "doctorate", "b\\.?s\\.?", "m\\.?s\\.?", "b\\.?a\\.?", "m\\.?a\\.?", "mba">>

\* ctx = text[max(0, m.start() - 40): min(len(text), m.end() + 120)]
ContextBefore == 40
ContextAfter == 120

\* The end of the match at i of the pattern from its index k on, for a pattern
\* of literal characters, \-escaped characters and ? after any of them; s is
\* the lower-cased text (re.IGNORECASE).
RECURSIVE PatternEnd(_, _, _, _)
PatternEnd(s, i, pat, k) ==
    IF k > Len(pat) THEN i
    ELSE LET esc == CharAt(pat, k) = "\\"
             c == IF esc THEN CharAt(pat, k + 1) ELSE CharAt(pat, k)
             k2 == IF esc THEN k + 2 ELSE k + 1
             opt == CharAt(pat, k2) = "?"
             k3 == IF opt THEN k2 + 1 ELSE k2
             taken == IF CharAt(s, i) = c THEN PatternEnd(s, i + 1, pat, k3) ELSE 0
         IN  IF taken # 0 THEN taken ELSE IF opt THEN PatternEnd(s, i, pat, k3) ELSE 0

\* for m in re.finditer(kw, text, re.IGNORECASE): the context windows of the
\* matches from i on
RECURSIVE KeywordContexts(_, _, _, _)
KeywordContexts(text, lower, kw, from) ==
    LET End(i) == PatternEnd(lower, i, kw, 1)
        i == FirstFrom(from, Len(text), End)
        e == PatternEnd(lower, i, kw, 1)
    IN  IF i = 0 THEN <<>>
        ELSE <<Strip(Slice(text, Max(0, (i - 1) - ContextBefore),
                                 Min(Len(text), (e - 1) + ContextAfter)))>>
             \o KeywordContexts(text, lower, kw, e)

AllContexts(text, kws) ==
    LET lower == Lower(text)
    IN  Flatten([k \in 1..Len(kws) |-> KeywordContexts(text, lower, kws[k], 1)])

PlaceholderEducation == <<"Education details in CV">>

\* An extraction that reports the first match of each keyword only.
ExtractEducationFirstMatches(text) ==
    LET lower == Lower(text)
        edu == Flatten([k \in 1..Len(DegreeKeywords) |->
                           Take(KeywordContexts(text, lower, DegreeKeywords[k], 1), 1)])
    IN  IF edu # <<>> THEN edu ELSE PlaceholderEducation

_extract_education(text) ==
    LET edu == AllContexts(text, DegreeKeywords)
    IN  IF edu # <<>> THEN edu ELSE PlaceholderEducation

(***************************************************************************)
(* utils.py: ATS analysis                                                  *)
(***************************************************************************)

\* for kw in SKILL_KEYWORDS: if kw in job_text: found.append(kw)
FoundKeywords(job_text, kws) ==
    LET In(kw) == Contains(job_text, kw)
    IN  SelectSeq(kws, In)

\* The end (the index after the last character) of the match of the pattern
\* (\d+)\+?\s*years? that starts at i, or 0 when none starts there.  \d+, \+?
\* and \s* are greedy and what follows each can not start with a character the
\* quantifier takes, so the greedy choice is the only one.
YearsMatchEnd(s, i) ==
    LET nd == RunLen(s, i, Digits)
        p1 == i + nd
        p2 == IF CharAt(s, p1) = "+" THEN p1 + 1 ELSE p1
        p3 == p2 + RunLen(s, p2, Whitespace)
    IN  IF nd >= 1 /\ StartsAt(s, p3, "year")
        THEN (IF CharAt(s, p3 + 4) = "s" THEN p3 + 5 ELSE p3 + 4)
        ELSE 0

\* for m in re.finditer(r'(\d+)\+?\s*years?', job_text):
\*     found.append(f"{m.group(1)}+ years experience")
\* finditer scans from the left and resumes at the end of each match.
RECURSIVE YearsKeywords(_, _)
YearsKeywords(s, from) ==
    LET End(i) == YearsMatchEnd(s, i)
        i == FirstFrom(from, Len(s), End)
    IN  IF i = 0 THEN <<>>
        ELSE <<SubSeq(s, i, i + RunLen(s, i, Digits) - 1) \o "+ years experience">>
             \o YearsKeywords(s, YearsMatchEnd(s, i))

\* An extraction that sorts the vocabulary terms it finds.
ExtractJobKeywordsSorted(job_text) ==
    Sorted(FoundKeywords(job_text, SKILL_KEYWORDS)) \o YearsKeywords(job_text, 1)

_extract_job_keywords(job_text) ==
    FoundKeywords(job_text, SKILL_KEYWORDS) \o YearsKeywords(job_text, 1)

\* A classification that puts each missing keyword in front of the earlier ones.
RECURSIVE ClassifyPrepending(_, _, _, _)
ClassifyPrepending(kws, cv_lower, lo, hi) ==
    IF lo > hi THEN [matched |-> <<>>, missing |-> <<>>]
    ELSE LET rest == ClassifyPrepending(kws, cv_lower, lo, hi - 1)
         IN  IF Contains(cv_lower, kws[hi])
             THEN [matched |-> Append(rest.matched, kws[hi]), missing |-> rest.missing]
             ELSE [matched |-> rest.matched, missing |-> <<kws[hi]>> \o rest.missing]

\* The loop of analyze_ats that classifies the job keywords: what the
\* iterations lo..hi append to matched and to missing (the loop is cut in
\* halves to keep the recursion shallow).
RECURSIVE Classify(_, _, _, _)
Classify(kws, cv_lower, lo, hi) ==
    IF lo > hi THEN [matched |-> <<>>, missing |-> <<>>]
    ELSE IF lo = hi
         THEN IF Contains(cv_lower, kws[lo])
              THEN [matched |-> <<kws[lo]>>, missing |-> <<>>]
              ELSE [matched |-> <<>>, missing |-> <<kws[lo]>>]
    ELSE LET mid == (lo + hi) \div 2
             a == Classify(kws, cv_lower, lo, mid)
             b == Classify(kws, cv_lower, mid + 1, hi)
         IN  [matched |-> a.matched \o b.matched, missing |-> a.missing \o b.missing]

(***************************************************************************)
(* The float arithmetic of the score.  len(matched) / len(job_kws) is the  *)
(* IEEE-754 double nearest to the quotient, the product with 100 is the    *)
(* double nearest to the exact product, and round() takes the double to    *)
(* the nearest integer; every rounding is half-to-even.  A significand is  *)
(* a sequence of bits, most significant first.                             *)
(***************************************************************************)

\* the bits of the significand of a double
MantissaBits == 53

Zeros(k) == [i \in 1..k |-> 0]

\* 2^k mod n, by squaring
RECURSIVE Pow2Mod(_, _)
Pow2Mod(k, n) ==
    IF k = 0 THEN 1 % n
    ELSE LET h == Pow2Mod(k \div 2, n)
         IN  IF k % 2 = 0 THEN (h * h) % n ELSE (2 * h * h) % n

\* Long division of x by n for n <= x < 2n: the leading bit 1 and the k bits
\* after it, and the remainder left.  The remainder after j bits is
\* x * 2^j mod n, and the next bit says whether twice it reaches n.
LongDiv(x, n, k) ==
    LET Rem(j) == ((x - n) * Pow2Mod(j, n)) % n
    IN  [bits |-> [j \in 1..(k + 1) |-> IF j = 1 THEN 1
                                         ELSE IF 2 * Rem(j - 2) >= n THEN 1 ELSE 0],
         rem |-> Rem(k)]

\* a + b, for bit sequences most significant bit first: there is a carry into
\* a place when a lower place generates one and the places between pass it on
BitAdd(a, b) ==
    LET len == Max(Len(a), Len(b)) + 1
        pa == Zeros(len - Len(a)) \o a
        pb == Zeros(len - Len(b)) \o b
        Carry(i) == \E j \in (i + 1)..len :
                        /\ pa[j] = 1 /\ pb[j] = 1
                        /\ \A k \in (i + 1)..(j - 1) : pa[k] + pb[k] >= 1
        sum == [i \in 1..len |-> (pa[i] + pb[i] + (IF Carry(i) THEN 1 ELSE 0)) % 2]
    IN  IF sum[1] = 0 THEN SubSeq(sum, 2, len) ELSE sum

RECURSIVE BitsToInt(_)
BitsToInt(bits) ==
    IF bits = <<>> THEN 0 ELSE 2 * BitsToInt(SubSeq(bits, 1, Len(bits) - 1)) + bits[Len(bits)]

\* bits, an integer of at least MantissaBits bits with leading bit 1, rounded
\* half-to-even to MantissaBits significant bits; the bits dropped are to be
\* read as zeros
RoundToMantissa(bits) ==
    LET kept == SubSeq(bits, 1, MantissaBits)
        guard == IF Len(bits) > MantissaBits THEN bits[MantissaBits + 1] ELSE 0
        sticky == \E i \in (MantissaBits + 2)..Len(bits) : bits[i] = 1
        up == guard = 1 /\ (sticky \/ kept[MantissaBits] = 1)
    IN  IF up THEN BitAdd(kept, <<1>>) ELSE kept

\* the least e with m * 2^e >= n, for 0 < m <= n
RECURSIVE NormShift(_, _)
NormShift(m, n) == IF m >= n THEN 0 ELSE 1 + NormShift(2 * m, n)

RECURSIVE Pow2(_)
Pow2(e) == IF e = 0 THEN 1 ELSE 2 * Pow2(e - 1)

\* The double m / n for 0 < m <= n: [sig, frac], of value sig * 2^(-frac).
FloatDiv(m, n) ==
    LET e == NormShift(m, n)
        d == LongDiv(m * Pow2(e), n, MantissaBits - 1)
        up == 2 * d.rem > n \/ (2 * d.rem = n /\ d.bits[MantissaBits] = 1)
    IN  [sig |-> IF up THEN BitAdd(d.bits, <<1>>) ELSE d.bits,
         frac |-> MantissaBits - 1 + e]

\* The double x * 100: 100 = 64 + 32 + 4.
FloatTimes100(x) ==
    LET exact == BitAdd(BitAdd(x.sig \o Zeros(6), x.sig \o Zeros(5)), x.sig \o Zeros(2))
        dropped == Len(exact) - MantissaBits
    IN  [sig |-> RoundToMantissa(exact), frac |-> x.frac - dropped]

\* round(y) for a double 0 < y < 256 with at least one fraction bit
FloatRound(y) ==
    LET padded == Zeros(y.frac + 8 - Len(y.sig)) \o y.sig
        int == BitsToInt(SubSeq(padded, 1, Len(padded) - y.frac))
        fracBits == SubSeq(padded, Len(padded) - y.frac + 1, Len(padded))
        half == fracBits[1] = 1
        more == \E i \in 2..Len(fracBits) : fracBits[i] = 1
    IN  IF half /\ (more \/ int % 2 = 1) THEN int + 1 ELSE int

\* A score that leaves out the division by the number of job keywords.
ScoreOfCount(m, n) == IF n = 0 THEN 50 ELSE 100 * m

\* A score that rounds the percentage up.
ScoreOfCeiling(m, n) == IF n = 0 THEN 50 ELSE (100 * m + n - 1) \div n

\* round((len(matched) / len(job_kws)) * 100) if job_kws else 50, and then
\* max(0, min(100, score)); m = len(matched), n = len(job_kws)
ScoreOf(m, n) ==
    LET score == IF n = 0 THEN 50
                 ELSE IF m = 0 THEN 0
                 ELSE FloatRound(FloatTimes100(FloatDiv(m, n)))
    IN  Max(0, Min(100, score))

(***************************************************************************)
(* utils.py: tips, analyze_ats, the roadmap                                *)
(***************************************************************************)

\* dict.get(key, default), for a dict written as the list of its items
DictGet(dict, key, default) ==
    IF \E i \in 1..Len(dict) : dict[i].key = key
    THEN dict[CHOOSE i \in 1..Len(dict) : dict[i].key = key].value
    ELSE default

resource_map == <<
    [key |-> "docker", value |-> "Docker Official Docs + Play With Docker (free)"],
    [key |-> "aws", value |-> "AWS Free Tier + freeCodeCamp AWS Course"],
    [key |-> "kubernetes", value |-> "Kubernetes.io Interactive Tutorial (free)"],
    [key |-> "python", value |-> "Python.org Tutorial + freeCodeCamp"],
    [key |-> "javascript", value |-> "freeCodeCamp + JavaScript.info"],
    [key |-> "react", value |-> "React.dev official tutorial (free)"],
    [key |-> "sql", value |-> "SQLBolt + W3Schools SQL"],
    [key |-> "git", value |-> "GitHub Learning Lab (free)"],
    [key |-> "typescript", value |-> "TypeScript Handbook (official, free)"],
    [key |-> "machine learning", value |-> "Andrew Ng ML Course on Coursera (audit free)"] >>

GenericResource == "YouTube tutorials + freeCodeCamp"

\* missing[:4]
TipSkills == 4
\* tips[:8]
TipsCap == 8
\* len(cv_data.get('skills', [])) < 6
FewSkills == 6
\* missing[:10]
MissingCap == 10
\* missing_skills[:8]
RoadmapCap == 8

\* A skill tip that never looks the skill up in resource_map.
SkillTipGeneric(skill) ==
    "Add \"" \o Title(skill) \o "\" - Learn via: " \o GenericResource \o " (~2-4 hrs)"

SkillTip(skill) ==
    "Add \"" \o Title(skill) \o "\" - Learn via: "
        \o DictGet(resource_map, Lower(skill), GenericResource) \o " (~2-4 hrs)"

ProjectsTip == "Add a 'Projects' section - concrete examples boost ATS and recruiter trust."
QuantifyTip == "Include quantifiable achievements (e.g., 'Reduced load time by 40%')."
CertificationsTip == "Add certifications - even free ones (Google, AWS, Meta) add credibility."
ActionVerbsTip == "Use strong action verbs: Developed, Led, Architected, Implemented."
ExpandSkillsTip == "Expand your Skills section - aim for 8-12 listed skills."

\* any(v in cv_lower for v in words)
ContainsAny(cv_lower, words) == \E i \in 1..Len(words) : Contains(cv_lower, words[i])

\* Tips in which the expand-skills tip comes before the other rule tips.
GenerateTipsExpandFirst(cv_data, missing, cv_lower) ==
    LET first == Take(missing, TipSkills)
        t1 == [i \in 1..Len(first) |-> SkillTip(first[i])]
        t2 == IF Len(cv_data.skills) < FewSkills THEN Append(t1, ExpandSkillsTip) ELSE t1
        t3 == IF ~Contains(cv_lower, "project") THEN Append(t2, ProjectsTip) ELSE t2
        t4 == IF ~ContainsAny(cv_lower, <<"increased", "improved", "reduced", "grew", "%">>)
              THEN Append(t3, QuantifyTip) ELSE t3
        t5 == IF ~Contains(cv_lower, "certification") /\ ~Contains(cv_lower, "certified")
              THEN Append(t4, CertificationsTip) ELSE t4
        t6 == IF ~ContainsAny(cv_lower, <<"developed", "led", "designed", "built", "implemented">>)
              THEN Append(t5, ActionVerbsTip) ELSE t5
    IN  Take(t6, TipsCap)

_generate_tips(cv_data, missing, cv_lower) ==
    LET first == Take(missing, TipSkills)
        t1 == [i \in 1..Len(first) |-> SkillTip(first[i])]
        t2 == IF ~Contains(cv_lower, "project") THEN Append(t1, ProjectsTip) ELSE t1
        t3 == IF ~ContainsAny(cv_lower, <<"increased", "improved", "reduced", "grew", "%">>)
              THEN Append(t2, QuantifyTip) ELSE t2
        t4 == IF ~Contains(cv_lower, "certification") /\ ~Contains(cv_lower, "certified")
              THEN Append(t3, CertificationsTip) ELSE t3
        t5 == IF ~ContainsAny(cv_lower, <<"developed", "led", "designed", "built", "implemented">>)
              THEN Append(t4, ActionVerbsTip) ELSE t4
        t6 == IF Len(cv_data.skills) < FewSkills THEN Append(t5, ExpandSkillsTip) ELSE t5
    IN  Take(t6, TipsCap)

\* An analysis that looks for the keywords in the skills list as well.
AtsLocalsReadingSkills(cv_data, job_description) ==
    LET listed == IF cv_data.skills = <<>> THEN "" ELSE Flatten(cv_data.skills)
        cv_lower == Lower(cv_data.raw_text \o " " \o listed)
        job_lower == Lower(job_description)
        job_kws == _extract_job_keywords(job_lower)
        lists == Classify(job_kws, cv_lower, 1, Len(job_kws))
    IN  [cv_lower |-> cv_lower, job_kws |-> job_kws,
         matched |-> lists.matched, missing |-> lists.missing,
         score |-> ScoreOf(Len(lists.matched), Len(job_kws)),
         tips |-> _generate_tips(cv_data, lists.missing, cv_lower)]

\* The local variables of analyze_ats when it returns.
AtsLocals(cv_data, job_description) ==
    LET cv_lower == Lower(cv_data.raw_text)
        job_lower == Lower(job_description)
        job_kws == _extract_job_keywords(job_lower)
        lists == Classify(job_kws, cv_lower, 1, Len(job_kws))
    IN  [cv_lower |-> cv_lower, job_kws |-> job_kws,
         matched |-> lists.matched, missing |-> lists.missing,
         score |-> ScoreOf(Len(lists.matched), Len(job_kws)),
         tips |-> _generate_tips(cv_data, lists.missing, cv_lower)]

\* A return value that carries the whole missing list.
AtsReturnUncut(locals) ==
    [score |-> locals.score,
     matched_skills |-> locals.matched,
     missing_skills |-> locals.missing,
     tips |-> locals.tips]

\* The dict analyze_ats returns, from its local variables.
AtsReturn(locals) ==
    [score |-> locals.score,
     matched_skills |-> locals.matched,
     missing_skills |-> Take(locals.missing, MissingCap),
     tips |-> locals.tips]

analyze_ats(cv_data, job_description) == AtsReturn(AtsLocals(cv_data, job_description))

ROADMAP_DB == <<
    [key |-> "python", value |-> [weeks |-> "3-5", resources |-> <<"Python.org Tutorial", "freeCodeCamp Python", "Codecademy">>]],
    [key |-> "javascript", value |-> [weeks |-> "4-6", resources |-> <<"freeCodeCamp JS", "JavaScript.info", "MDN Web Docs">>]],
    [key |-> "typescript", value |-> [weeks |-> "2-3", resources |-> <<"TypeScript Handbook", "freeCodeCamp TS", "Udemy (free coupons)">>]],
    [key |-> "react", value |-> [weeks |-> "3-4", resources |-> <<"React.dev Tutorial", "freeCodeCamp React", "Scrimba (free tier)">>]],
    [key |-> "node.js", value |-> [weeks |-> "3-4", resources |-> <<"Node.js Docs", "freeCodeCamp Node", "The Odin Project">>]],
    [key |-> "docker", value |-> [weeks |-> "2-3", resources |-> <<"Docker Docs", "Play With Docker", "YouTube: Docker in 1 Hr">>]],
    [key |-> "kubernetes", value |-> [weeks |-> "4-6", resources |-> <<"Kubernetes.io Tutorial", "KodeKloud (free)", "CNCF Landscape">>]],
    [key |-> "aws", value |-> [weeks |-> "6-8", resources |-> <<"AWS Free Tier", "freeCodeCamp AWS", "A Cloud Guru (free tier)">>]],
    [key |-> "azure", value |-> [weeks |-> "5-7", resources |-> <<"Microsoft Learn", "Azure Free Tier", "YouTube: Azure in 1 Hr">>]],
    [key |-> "gcp", value |-> [weeks |-> "5-7", resources |-> <<"Google Cloud Skills Boost", "GCP Free Tier", "Qwiklabs">>]],
    [key |-> "sql", value |-> [weeks |-> "2-3", resources |-> <<"SQLBolt", "W3Schools SQL", "Khan Academy">>]],
    [key |-> "git", value |-> [weeks |-> "1-2", resources |-> <<"Git-SCM.com", "GitHub Learning Lab", "Atlassian Git Tutorial">>]],
    [key |-> "machine learning", value |-> [weeks |-> "8-12", resources |-> <<"Andrew Ng ML (Coursera audit)", "fast.ai", "Kaggle Learn">>]],
    [key |-> "data science", value |-> [weeks |-> "6-8", resources |-> <<"Kaggle Learn", "freeCodeCamp Data Science", "pandas Docs">>]],
    [key |-> "ci/cd", value |-> [weeks |-> "2-3", resources |-> <<"GitHub Actions Docs", "Jenkins Tutorials", "GitLab CI Docs">>]],
    [key |-> "linux", value |-> [weeks |-> "3-4", resources |-> <<"The Linux Command Line (book)", "Over The Wire Bandit", "Linux Journey">>]] >>

GenericRoadmapInfo ==
    [weeks |-> "2-4", resources |-> <<"YouTube Tutorials", "freeCodeCamp", "Udemy (free coupons)">>]

\* One section of the roadmap: the heading, the estimate, the resource lines
\* and the three numbered lines of the action plan.
RoadmapEntry(i, skill) ==
    LET info == DictGet(ROADMAP_DB, Lower(skill), GenericRoadmapInfo)
    IN  [number |-> i,
         skill |-> Title(skill),
         weeks |-> info.weeks,
         resources |-> info.resources,
         steps |-> << "Week 1 - Complete a beginner tutorial on " \o Title(skill),
                      "Week 2 - Build a small hands-on project using " \o Title(skill),
                      "Week 3+ - Add the project to your GitHub & update your CV" >>]

\* datetime.datetime.now(), to the day: the dates a call may be made on
Days == { [year |-> 2026, month |-> 12, day |-> 31], [year |-> 2027, month |-> 1, day |-> 1] }

\* a <= b for dates
NotAfter(a, b) ==
    \/ a.year < b.year
    \/ a.year = b.year /\ a.month < b.month
    \/ a.year = b.year /\ a.month = b.month /\ a.day <= b.day

MonthNames == <<"January", "February", "March", "April", "May", "June", "July", "August",
                "September", "October", "November", "December">>

\* the two digits of %d and %m
TwoDigits(n) == IF n < 10 THEN "0" \o ToString(n) ELSE ToString(n)

\* now.strftime('%B %d, %Y')
StrftimeLong(now) ==
    MonthNames[now.month] \o " " \o TwoDigits(now.day) \o ", " \o ToString(now.year)

\* now.strftime('%Y-%m-%d')
StrftimeIso(now) ==
    ToString(now.year) \o "-" \o TwoDigits(now.month) \o "-" \o TwoDigits(now.day)

\* A roadmap with a section for every skill it is given.
RoadmapOfAll(missing_skills, now) ==
    [generated_on |-> StrftimeLong(now),
     entries |-> [i \in 1..Len(missing_skills) |-> RoadmapEntry(i, missing_skills[i])]]

\* The markdown generate_skills_roadmap returns, as its parts: the date line
\* (datetime.datetime.now() formatted to the day) and the sections.
generate_skills_roadmap(missing_skills, now) ==
    LET first == Take(missing_skills, RoadmapCap)
    IN  [generated_on |-> StrftimeLong(now),
         entries |-> [i \in 1..Len(first) |-> RoadmapEntry(i, first[i])]]

(***************************************************************************)
(* utils.py: generate_optimized_cv and generate_portfolio                  *)
(***************************************************************************)

\* sep.join(list[lo..hi]) (by halves)
RECURSIVE JoinBy(_, _, _, _)
JoinBy(sep, list, lo, hi) ==
    IF lo > hi THEN ""
    ELSE IF lo = hi THEN list[lo]
    ELSE JoinBy(sep, list, lo, (lo + hi) \div 2) \o sep
             \o JoinBy(sep, list, (lo + hi) \div 2 + 1, hi)

\* sep.join(list)
Join(sep, list) == JoinBy(sep, list, 1, Len(list))

\* cv_data.get('skills', [])[:5]
SummarySkills == 5
\* all_skills[:16] and skills[:16]
SkillsShown == 16
\* experience[:5]
ExperienceShown == 5
\* cv_data['education'][:3]
DocumentEducationShown == 3
\* education[:4]
SiteEducationShown == 4
\* skills[:3]
AboutSkills == 3

Para(style, text) == [style |-> style, text |-> text]

\* The story generate_optimized_cv hands to doc.build: the flowables in order,
\* each Paragraph with its style and the markup text it is given.
Story(cv_data) ==
    LET parts == (IF cv_data.email # "" THEN <<cv_data.email>> ELSE <<>>)
                 \o (IF cv_data.phone # "" THEN <<cv_data.phone>> ELSE <<>>)
        preview == Join(", ", Take(cv_data.skills, SummarySkills))
        skills_preview == IF preview # "" THEN preview ELSE "diverse technologies"
        summary ==
            "Results-driven professional with hands-on expertise in <b>" \o skills_preview
            \o "</b>. Passionate about delivering high-quality, scalable solutions and "
            \o "continuously expanding technical skills. Proven track record of "
            \o "collaborating in fast-paced environments to meet and exceed project goals."
        shown == Take(cv_data.experience, ExperienceShown)
        edus == Take(cv_data.education, DocumentEducationShown)
    IN  <<Para("Name", cv_data.name)>>
        \o (IF parts # <<>> THEN <<Para("Contact", Join(" * ", parts))>> ELSE <<>>)
        \o <<Para("HRFlowable", "")>>
        \o <<Para("Section", "PROFESSIONAL SUMMARY"), Para("Body", summary)>>
        \o (IF cv_data.skills # <<>>
            THEN <<Para("Section", "SKILLS"),
                   Para("Body", Join(" &nbsp;*&nbsp; ", Take(cv_data.skills, SkillsShown)))>>
            ELSE <<>>)
        \o <<Para("Section", "PROFESSIONAL EXPERIENCE")>>
        \o Flatten([i \in 1..Len(shown) |->
               <<Para("Body", "<b>" \o shown[i].title \o "</b>")>>
               \o (IF shown[i].description # ""
                   THEN <<Para("Bullet", "* " \o shown[i].description)>> ELSE <<>>)])
        \o (IF cv_data.education # <<>>
            THEN <<Para("Section", "EDUCATION")>>
                 \o [i \in 1..Len(edus) |-> Para("Body", edus[i])]
            ELSE <<>>)

\* The bytes generate_optimized_cv returns, as what they hold: the PDF that
\* doc.build lays out from the story, and the creation date ReportLab writes in
\* the document information (the clock when doc.build runs).
generate_optimized_cv(cv_data, job_description, now) ==
    [header |-> "%PDF", created |-> now, story |-> Story(cv_data)]

\* one card of the skills grid (s[0] is the first character of a skill; the
\* skills of a profile are non-empty strings)
SkillCard(s) ==
    "            <div class=\"skill-card\">\n"
    \o "              <div class=\"skill-icon\">" \o UpperChar(CharAt(s, 1)) \o "</div>\n"
    \o "              <span>" \o s \o "</span>\n"
    \o "            </div>"

\* one item of the experience timeline
TimelineItem(e) ==
    "            <div class=\"timeline-item\">\n"
    \o "              <div class=\"timeline-dot\"></div>\n"
    \o "              <div class=\"timeline-content\">\n"
    \o "                <h3>" \o e.title \o "</h3>\n"
    \o "                <p>" \o e.description \o "</p>\n"
    \o "              </div>\n"
    \o "            </div>"

\* The page generate_portfolio builds, as the lines of its template that
\* interpolate a value, in the order of the page (the lines between them are
\* fixed text: the style sheet and the headings of the sections).
PortfolioHtml(cv_data, now) ==
    LET name == cv_data.name
        skills == cv_data.skills
        experience == cv_data.experience
        education == cv_data.education
        cards == Take(skills, SkillsShown)
        items == Take(experience, ExperienceShown)
        edus == Take(education, SiteEducationShown)
    IN  << "  <title>" \o name \o " - Portfolio</title>",
           "    <a href=\"#\" class=\"nav-logo\">" \o name \o "</a>",
           "    <h1>Hi, I'm <span>" \o name \o "</span></h1>",
           "          Results-driven professional with deep expertise in "
               \o Join(", ", Take(skills, AboutSkills)) \o ".",
           "          <div class=\"num\">" \o ToString(Len(skills)) \o "</div>",
           "          <div class=\"num\">" \o ToString(Len(experience)) \o "</div>",
           "          <div class=\"num\">" \o ToString(Len(education)) \o "</div>",
           Join("\n", [i \in 1..Len(cards) |-> SkillCard(cards[i])]),
           Join("\n", [i \in 1..Len(items) |-> TimelineItem(items[i])]),
           Join("\n", [i \in 1..Len(edus) |-> "            <li>" \o edus[i] \o "</li>"]),
           "      <div class=\"contact-item\">@ <strong>" \o cv_data.email \o "</strong></div>",
           "      " \o (IF cv_data.phone # ""
                        THEN "<div class='contact-item'># <strong>" \o cv_data.phone
                                 \o "</strong></div>"
                        ELSE ""),
           "  <p>&copy; " \o ToString(now.year) \o " " \o name
               \o " - Portfolio generated by CareerBoost AI</p>" >>

\* the README.md of the archive
PortfolioReadme(cv_data, now) ==
    "# " \o cv_data.name \o " - Portfolio\n\n"
    \o "Generated by CareerBoost AI on " \o StrftimeIso(now) \o ".\n\n"
    \o "## Deploy (all free)\n"
    \o "1. **GitHub Pages** - push to a repo, enable Pages\n"
    \o "2. **Netlify** - drag & drop the folder\n"
    \o "3. **Vercel** - connect your GitHub repo\n"

\* The bytes generate_portfolio returns, as what they hold: the entries of the
\* archive in order, each with its name, the date zipfile stamps it with (the
\* clock when writestr runs) and its text.
generate_portfolio(cv_data, now) ==
    << [name |-> "index.html", date_time |-> now, data |-> PortfolioHtml(cv_data, now)],
       [name |-> "README.md", date_time |-> now, data |-> PortfolioReadme(cv_data, now)] >>

(***************************************************************************)
(* utils.py: parse_cv and parse_linkedin                                   *)
(***************************************************************************)

\* An optional value (None or a value) is a list of at most one entry.
None == <<>>
Some(x) == <<x>>
Val(opt) == opt[1]

EndsWith(s, suffix) ==
    Len(suffix) <= Len(s) /\ SubSeq(s, Len(s) - Len(suffix) + 1, Len(s)) = suffix

\* A format test that takes every file name.
AnyFormat(file) == TRUE

\* An uploaded file is [name, text, readable]: its name, the text its decoder
\* (fitz, python-docx, bytes.decode) yields, and whether that decoder succeeds.
\* parse_pdf, parse_docx and parse_txt return the text stripped, or raise.
SupportedFormat(file) ==
    \E ext \in {".pdf", ".docx", ".doc", ".txt"} : EndsWith(Lower(file.name), ext)

\* whether parse_cv(file) raises
ParseCvRaises(file) == ~SupportedFormat(file) \/ ~file.readable

\* the dict the return statement of parse_cv builds from the extracted text
ProfileOf(text) ==
    [raw_text |-> text,
     name |-> _extract_name(text),
     email |-> _extract_email(text),
     phone |-> _extract_phone(text),
     skills |-> _extract_skills(text),
     experience |-> _extract_experience(text),
     education |-> _extract_education(text)]

\* parse_cv(file), when it does not raise
parse_cv(file) == ProfileOf(Strip(file.text))

LinkedinFallbackSkills == <<"Communication", "Teamwork", "Leadership">>

\* desc[:200]
DescriptionCap == 200

\* name.split('|')[0]
BeforeBar(name) ==
    LET bars == { i \in 1..Len(name) : CharAt(name, i) = "|" }
    IN  IF bars = {} THEN name ELSE Slice(name, 0, KthOf(bars, 1) - 1)

\* whether parse_linkedin(url) raises its validation error before any request
LinkedinUrlRejected(url) == ~Contains(url, "linkedin.com")

\* The dict parse_linkedin builds from a fetched page [og_title, og_description,
\* body_text]: the content of the two meta tags (None when the tag is absent)
\* and the text of the page.
LinkedinProfile(page) ==
    LET name == IF page.og_title = None THEN "LinkedIn User" ELSE Val(page.og_title)
        desc == IF page.og_description = None THEN "" ELSE Val(page.og_description)
        skills == _extract_skills(page.body_text)
    IN  [name |-> IF name # "" THEN Strip(BeforeBar(name)) ELSE "LinkedIn User",
         email |-> "",
         phone |-> "",
         skills |-> IF skills # <<>> THEN skills ELSE LinkedinFallbackSkills,
         experience |-> <<[title |-> "See LinkedIn for full experience",
                           description |-> Slice(desc, 0, DescriptionCap)]>>,
         education |-> <<"See LinkedIn for education details">>,
         raw_text |-> page.body_text,
         note |-> "LinkedIn limits automated access. Upload your CV for full analysis."]

(***************************************************************************)
(* The inputs of a request                                                 *)
(***************************************************************************)

\* ", ".join(words[:k]) (by halves)
RECURSIVE JoinRange(_, _, _)
JoinRange(words, lo, hi) ==
    IF lo > hi THEN ""
    ELSE IF lo = hi THEN words[lo]
    ELSE JoinRange(words, lo, (lo + hi) \div 2) \o ", " \o JoinRange(words, (lo + hi) \div 2 + 1, hi)

\* a job description that lists the first k terms of the vocabulary
JobListing(k) == JoinRange(SKILL_KEYWORDS, 1, k)

\* the longest listing among the job descriptions
MaxJobTerms == 39

\* the number of terms the CV "skills.txt" lists
ListedSkills == 22

\* the most entries a merged skill set has in a request to app.py (every order
\* of the set is an outcome of list(set(...)))
MaxMergedSet == 3

JaneText ==
    "Jane Doe\njane.doe@example.com | +1 415-555-0134\n\nSummary\n"
    \o "Backend engineer. Led projects; improved latency by 30%.\n\n"
    \o "Work Experience\nSenior Engineer at Acme Corp\n"
    \o "Built Python and Django services on AWS with Docker\n"
    \o "Skills\nPython, Django, AWS, Docker, SQL, Git\n"
    \o "Education\nB.S. Computer Science, MIT\nCertified Scrum Master\n"

MinCv == [name |-> "min.TXT", text |-> "  python\n", readable |-> TRUE]

CvFiles == {
    [name |-> "jane.txt", text |-> JaneText, readable |-> TRUE],
    MinCv,
    [name |-> "sam.pdf", text |-> "Sam Lee\nJavaScript and AWS developer", readable |-> TRUE],
    [name |-> "empty.docx", text |-> "", readable |-> TRUE],
    [name |-> "notes.doc", text |-> "Employment\nnone yet", readable |-> TRUE],
    [name |-> "skills.txt", text |-> "Pat Kim\nSkills: " \o JobListing(ListedSkills), readable |-> TRUE] }

\* Documents whose text cannot be extracted: an extension parse_cv does not
\* know, a PDF that fitz cannot open, and text that is not valid UTF-8.
BadCvFiles == {
    [name |-> "photo.png", text |-> JaneText, readable |-> TRUE],
    [name |-> "broken.pdf", text |-> "", readable |-> FALSE],
    [name |-> "latin1.txt", text |-> "", readable |-> FALSE] }

LinkedinUrl == "https://www.linkedin.com/in/jane-doe"

\* URLs of other hosts: one without and one with 'linkedin.com' in its path
OtherUrls == {"https://example.com/in/jane-doe", "https://example.com/linkedin.com/in/jane-doe"}

\* What the request for the profile page meets: a RequestException, or a page.
FetchFailed == [ok |-> FALSE]
JanePage ==
    [ok |-> TRUE, og_title |-> Some("Jane Doe | LinkedIn"), og_description |-> Some("Backend engineer"),
     body_text |-> "Jane Doe Python AWS SQL Sign in to view"]
Pages == {
    JanePage,
    [ok |-> TRUE, og_title |-> None, og_description |-> None, body_text |-> "Join now"] }

LongJobText ==
    "Senior Engineer. Required: Kubernetes, Terraform, Kafka, Redis, GraphQL, React, "
    \o "TypeScript, Azure, Jenkins, Linux, Flask and FastAPI; 3+ years with Python, 3 years SQL."

ShortJobText == "Looking for a candidate with 5+ years Python and AWS experience"

\* The job description of a request: pasted text, an uploaded file or a URL.
NoJob == [mode |-> "none"]
PastedJobs == {
    [mode |-> "text", text |-> ShortJobText],
    [mode |-> "text", text |-> " " \o LongJobText \o "\n"] }
ListedJobs == { [mode |-> "text", text |-> JobListing(k)] : k \in 0..MaxJobTerms }
JobFiles == {
    [mode |-> "file", file |-> [name |-> "job.pdf", text |-> ShortJobText \o "\n", readable |-> TRUE]],
    [mode |-> "file", file |-> [name |-> "job.txt", text |-> "", readable |-> FALSE]] }
JobUrls == {
    [mode |-> "url", url |-> " https://jobs.example.com/42", page |-> [ok |-> TRUE, text |-> ShortJobText]],
    [mode |-> "url", url |-> " https://jobs.example.com/42", page |-> FetchFailed] }

Shells == {"app", "streamlit_app"}

(***************************************************************************)
(* app.py and streamlit_app.py: main(), after the button is pressed         *)
(***************************************************************************)

VARIABLES
    shell,          \* which of the two applications serves the request
    cv_file,        \* the uploaded CV: None or a file
    linkedin_url,   \* the LinkedIn URL typed ("" when none)
    response,       \* what the request for the profile page will meet
    job_input,      \* the job description given
    pc,             \* the statement of main() that runs next
    cv_data,        \* cv_data: None or a profile
    parser_output,  \* the dict parse_cv returned, as it is now (None before the call)
    linkedin_data,  \* linkedin_data / li_data: None or a profile
    final_data,     \* final_data (app.py); the cv_data the tabs read (streamlit_app.py)
    job_text,       \* job_text: None or a string
    ats_locals,     \* the local variables of the last call of analyze_ats, or None
    ats_results,    \* ats_results: None or the dict analyze_ats returned
    cv_pdf,         \* cv_pdf: None or the document
    portfolio_zip,  \* portfolio_zip / port_zip: None or the archive
    roadmap_input,  \* the argument of the call of generate_skills_roadmap, or None
    roadmap_md,     \* roadmap_md: None or the roadmap
    messages,       \* what st.error, st.warning, st.info and st.success have shown
    calls,          \* the calls made so far, in the order of their return
    clock,          \* the date datetime.datetime.now() gave last
    module_globals, \* SKILL_KEYWORDS and ROADMAP_DB, the module's tables, as they are now
    requests        \* the locals of the requests served at the same time

vars == <<shell, cv_file, linkedin_url, response, job_input, pc, cv_data, parser_output,
          linkedin_data, final_data, job_text, ats_locals, ats_results, cv_pdf, portfolio_zip,
          roadmap_input, roadmap_md, messages, calls, clock, module_globals, requests>>


inputs == <<shell, cv_file, linkedin_url, response, job_input>>
profiles == <<cv_data, parser_output, linkedin_data>>
analysis == <<ats_locals, ats_results>>
artifacts == <<cv_pdf, portfolio_zip, roadmap_input, roadmap_md>>
workers == <<module_globals, requests>>

\* the tables of utils.py as the module defines them
ModuleGlobals == [SKILL_KEYWORDS |-> SKILL_KEYWORDS, ROADMAP_DB |-> ROADMAP_DB]

Say(level, what) == messages' = Append(messages, [level |-> level, what |-> what])

\* One call: the function, its arguments and what it returned (None when it raised).
Call(fn, arg, out) == [fn |-> fn, arg |-> arg, out |-> out]
Log(entries) == calls' = calls \o entries

\* the day the button is pressed
FirstDay == CHOOSE d \in Days : \A e \in Days : NotAfter(d, e)

\* the dates datetime.datetime.now() may give when it is read next
Clock == { d \in Days : NotAfter(clock, d) }

\* The state when the button is pressed, for given inputs.
Start ==
    /\ pc = "validate"
    /\ cv_data = None /\ parser_output = None /\ linkedin_data = None /\ final_data = None
    /\ job_text = None /\ ats_locals = None /\ ats_results = None
    /\ cv_pdf = None /\ portfolio_zip = None
    /\ roadmap_input = None /\ roadmap_md = None
    /\ messages = <<>> /\ calls = <<>> /\ clock = FirstDay
    /\ module_globals = ModuleGlobals /\ requests = <<>>

\* The skills a request to app.py may come to merge.
MergedSet(file, page) ==
    IF ParseCvRaises(file) \/ ~page.ok THEN {}
    ELSE Range(parse_cv(file).skills) \cup Range(LinkedinProfile(page).skills)

Init ==
    /\ shell \in Shells
    /\ \/ /\ cv_file \in {None} \cup { Some(f) : f \in CvFiles }
          /\ \/ linkedin_url = "" /\ response = FetchFailed
             \/ linkedin_url = LinkedinUrl /\ response \in {FetchFailed} \cup Pages
          /\ job_input \in {NoJob} \cup PastedJobs
       \/ /\ cv_file \in { Some(f) : f \in BadCvFiles }
          /\ \/ linkedin_url = "" /\ response = FetchFailed
             \/ linkedin_url = LinkedinUrl /\ response = JanePage
          /\ job_input \in {NoJob} \cup PastedJobs
       \/ /\ cv_file \in {None, Some(MinCv)}
          /\ linkedin_url \in OtherUrls
          /\ response \in {FetchFailed, JanePage}
          /\ job_input = NoJob
       \/ /\ cv_file = Some(MinCv)
          /\ \/ linkedin_url = "" /\ response = FetchFailed
             \/ linkedin_url = LinkedinUrl /\ response = FetchFailed
          /\ job_input \in JobFiles \cup JobUrls
    /\ (shell = "app" /\ cv_file # None /\ linkedin_url # "")
           => Cardinality(MergedSet(Val(cv_file), response)) <= MaxMergedSet
    /\ Start

\* A validation that lets every request through.
ValidateNothing ==
    /\ pc = "validate"
    /\ pc' = "parse_cv"
    /\ UNCHANGED <<inputs, workers, profiles, final_data, job_text, analysis, artifacts, messages,
                   calls, clock>>

\* if not cv_file and not linkedin_url: st.error(...); return
Validate ==
    /\ pc = "validate"
    /\ IF cv_file = None /\ linkedin_url = ""
       THEN pc' = "done" /\ Say("error", "Please upload a CV or provide a LinkedIn URL")
       ELSE pc' = "parse_cv" /\ UNCHANGED messages
    /\ UNCHANGED <<inputs, workers, profiles, final_data, job_text, analysis, artifacts, calls, clock>>

\* if cv_file: cv_data = parse_cv(cv_file)
\* An exception ends the request with st.error: in streamlit_app.py by the
\* except around parse_cv, in app.py by the except around the whole processing.
ParseCv ==
    /\ pc = "parse_cv"
    /\ IF cv_file = None
       THEN pc' = "parse_linkedin" /\ UNCHANGED <<cv_data, parser_output, messages, calls>>
       ELSE IF ParseCvRaises(Val(cv_file))
            THEN /\ pc' = "done"
                 /\ UNCHANGED <<cv_data, parser_output>>
                 /\ Log(<<Call("parse_cv", Val(cv_file), None)>>)
                 /\ Say("error", "CV parse failed")
            ELSE /\ pc' = "parse_linkedin"
                 /\ cv_data' = Some(parse_cv(Val(cv_file)))
                 /\ parser_output' = cv_data'
                 /\ Log(<<Call("parse_cv", Val(cv_file), cv_data')>>)
                 /\ IF shell = "app" THEN Say("success", "CV parsed successfully")
                    ELSE UNCHANGED messages
    /\ UNCHANGED <<inputs, workers, linkedin_data, final_data, job_text, analysis, artifacts, clock>>

\* the lists of the entries of a set, each entry once
Orders(set) ==
    { f \in [1..Cardinality(set) -> set] : \A i, j \in 1..Cardinality(set) : f[i] = f[j] => i = j }

\* app.py: list(set(cv_data['skills'] + linkedin_data.get('skills', []))); the
\* order of the entries of a set of str is not fixed (it follows their hashes,
\* which differ from one run of the interpreter to the next)
AppMergedSkills(a, b) == Orders(Range(a \o b))

\* A merge that only appends the fetched skills.
StreamlitAppendedSkills(a, b) == a \o b

\* streamlit_app.py: list(dict.fromkeys(cv_data['skills'] + li_data.get('skills', [])))
StreamlitMergedSkills(a, b) == Deduplicate(a \o b)

\* The calls of parse_linkedin(url): requests.get comes after the test of the
\* URL, and parse_linkedin returns after it.
LinkedinCalls(url, page) ==
    IF LinkedinUrlRejected(url) THEN <<Call("parse_linkedin", url, None)>>
    ELSE IF ~page.ok THEN <<Call("requests.get", url, None), Call("parse_linkedin", url, None)>>
    ELSE <<Call("requests.get", url, Some(page)),
           Call("parse_linkedin", url, Some(LinkedinProfile(page)))>>

\* if linkedin_url: try: parse_linkedin(...) and the merge; except: st.warning
\* The merge assigns to cv_data['skills']: it writes to the dict parse_cv
\* returned, which cv_data names.
ParseLinkedin ==
    /\ pc = "parse_linkedin"
    /\ pc' = "select"
    /\ IF linkedin_url = ""
       THEN UNCHANGED <<cv_data, parser_output, linkedin_data, messages, calls>>
       ELSE /\ Log(LinkedinCalls(linkedin_url, response))
            /\ IF LinkedinUrlRejected(linkedin_url) \/ ~response.ok
               THEN UNCHANGED <<cv_data, parser_output, linkedin_data>> /\ Say("warning", "LinkedIn")
               ELSE LET li == LinkedinProfile(response)
                    IN  /\ linkedin_data' = Some(li)
                        /\ Say("info", "LinkedIn data")
                        /\ IF cv_data = None
                           THEN /\ cv_data' = IF shell = "app" THEN cv_data ELSE Some(li)
                                /\ UNCHANGED parser_output
                           ELSE /\ \E merged \in (IF shell = "app"
                                                 THEN AppMergedSkills(Val(cv_data).skills, li.skills)
                                                 ELSE {StreamlitMergedSkills(Val(cv_data).skills, li.skills)}) :
                                      cv_data' = Some([Val(cv_data) EXCEPT !.skills = merged])
                                /\ parser_output' = cv_data'
    /\ UNCHANGED <<inputs, workers, final_data, job_text, analysis, artifacts, clock>>

\* app.py: final_data = cv_data if cv_data else linkedin_data
\*         if not final_data: st.error(...); return
\* streamlit_app.py: if not cv_data: st.error(...); return
SelectData ==
    /\ pc = "select"
    /\ LET data == IF cv_data # None THEN cv_data
                   ELSE IF shell = "app" THEN linkedin_data ELSE None
       IN  /\ final_data' = data
           /\ IF data = None
              THEN pc' = "done" /\ Say("error", "No usable data extracted")
              ELSE pc' = "job" /\ UNCHANGED messages
    /\ UNCHANGED <<inputs, workers, profiles, job_text, analysis, artifacts, calls, clock>>

\* parse_pdf for a name ending in '.pdf', else parse_txt
JobFileParser(name) == IF EndsWith(name, ".pdf") THEN "parse_pdf" ELSE "parse_txt"

JobLinesCap == 200

\* '\n'.join(text.split('\n')[:200])
FirstLines(text) == Join("\n", Take(SplitLines(text), JobLinesCap))

\* The job description.
\*   pasted text: app.py takes it as it is, streamlit_app.py strips it;
\*   a file: parse_pdf or parse_txt, whose exception ends the request with
\*     st.error (app.py: the except around the whole processing);
\*   a URL: app.py only warns that URL parsing is not implemented;
\*     streamlit_app.py calls _fetch_job_from_url, and on its exception shows
\*     st.error and returns.
JobDescription ==
    /\ pc = "job"
    /\ CASE job_input.mode = "none" ->
              pc' = "analyze" /\ job_text' = None /\ UNCHANGED <<messages, calls>>
         [] job_input.mode = "text" ->
              LET text == IF shell = "app" THEN job_input.text ELSE Strip(job_input.text)
              IN  /\ pc' = "analyze"
                  /\ job_text' = IF text # "" THEN Some(text) ELSE None
                  /\ UNCHANGED <<messages, calls>>
         [] job_input.mode = "file" ->
              LET file == job_input.file
                  parser == JobFileParser(file.name)
              IN  IF file.readable
                  THEN /\ pc' = "analyze"
                       /\ job_text' = Some(Strip(file.text))
                       /\ Log(<<Call(parser, file, job_text')>>)
                       /\ UNCHANGED messages
                  ELSE /\ pc' = "done"
                       /\ UNCHANGED job_text
                       /\ Log(<<Call(parser, file, None)>>)
                       /\ Say("error", IF shell = "app" THEN "An error occurred" ELSE "Job PDF parse failed")
         [] job_input.mode = "url" ->
              IF shell = "app"
              THEN /\ pc' = "analyze"
                   /\ job_text' = None
                   /\ UNCHANGED calls
                   /\ Say("warning", "URL parsing not implemented yet")
              ELSE LET url == Strip(job_input.url)
                       page == job_input.page
                   IN  IF page.ok
                       THEN /\ pc' = "analyze"
                            /\ job_text' = Some(FirstLines(page.text))
                            /\ Log(<<Call("requests.get", url, Some(page)),
                                     Call("_fetch_job_from_url", url, job_text')>>)
                            /\ UNCHANGED messages
                       ELSE /\ pc' = "done"
                            /\ UNCHANGED job_text
                            /\ Log(<<Call("requests.get", url, None),
                                     Call("_fetch_job_from_url", url, None)>>)
                            /\ Say("error", "Could not fetch URL")
    /\ UNCHANGED <<inputs, workers, profiles, final_data, analysis, artifacts, clock>>

\* if job_text: ats_results = analyze_ats(final_data, job_text)
Analyze ==
    /\ pc = "analyze"
    /\ pc' = "optimized_cv"
    /\ IF job_text # None /\ Val(job_text) # ""
       THEN /\ ats_locals' = Some(AtsLocals(Val(final_data), Val(job_text)))
            /\ ats_results' = Some(AtsReturn(Val(ats_locals')))
            /\ Log(<<Call("analyze_ats", <<Val(final_data), Val(job_text)>>, ats_results')>>)
       ELSE UNCHANGED <<ats_locals, ats_results, calls>>
    /\ UNCHANGED <<inputs, workers, profiles, final_data, job_text, artifacts, messages, clock>>

\* the strings of the profile the two renderers put into their templates
ProfileFields(data) ==
    <<data.name, data.email, data.phone>> \o data.skills
    \o [i \in 1..Len(data.experience) |-> data.experience[i].title]
    \o [i \in 1..Len(data.experience) |-> data.experience[i].description]
    \o data.education

\* A Paragraph reads its text as markup: a '<' or '&' of a field is read as
\* the start of a tag or of an entity.
ReadAsMarkup(data) ==
    \E i \in 1..Len(ProfileFields(data)) :
        Contains(ProfileFields(data)[i], "<") \/ Contains(ProfileFields(data)[i], "&")

\* A build that raises for a profile without skills.
BuildOutcomesNeedingSkills(data, job_description, now) ==
    IF data.skills = <<>> THEN {None}
    ELSE {Some(generate_optimized_cv(data, job_description, now))}

\* What doc.build(story) may do: it returns the document; when a field is
\* read as markup, the markup may be well formed (the document is built) or
\* not (the Paragraph raises ValueError).
BuildOutcomes(data, job_description, now) ==
    {Some(generate_optimized_cv(data, job_description, now))}
    \cup (IF ReadAsMarkup(data) THEN {None} ELSE {})

\* cv_pdf = generate_optimized_cv(final_data, job_text)
\* An exception ends the request: app.py shows it with st.error, in
\* streamlit_app.py nothing catches it.
OptimizedCv ==
    /\ pc = "optimized_cv"
    /\ \E now \in Clock : \E out \in BuildOutcomes(Val(final_data), job_text, now) :
         /\ clock' = now
         /\ Log(<<Call("generate_optimized_cv", <<Val(final_data), job_text>>, out)>>)
         /\ IF out = None
            THEN /\ pc' = "done"
                 /\ UNCHANGED cv_pdf
                 /\ Say(IF shell = "app" THEN "error" ELSE "exception", "generate_optimized_cv")
            ELSE /\ pc' = "portfolio"
                 /\ cv_pdf' = out
                 /\ IF shell = "app" THEN Say("success", "CV generated successfully")
                    ELSE UNCHANGED messages
    /\ UNCHANGED <<inputs, workers, profiles, final_data, job_text, analysis, portfolio_zip,
                   roadmap_input, roadmap_md>>

\* portfolio_zip = generate_portfolio(final_data)
Portfolio ==
    /\ pc = "portfolio"
    /\ pc' = "roadmap"
    /\ \E now \in Clock :
         /\ clock' = now
         /\ portfolio_zip' = Some(generate_portfolio(Val(final_data), now))
         /\ Log(<<Call("generate_portfolio", Val(final_data), portfolio_zip')>>)
    /\ IF shell = "app" THEN Say("success", "Portfolio generated successfully")
       ELSE UNCHANGED messages
    /\ UNCHANGED <<inputs, workers, profiles, final_data, job_text, analysis, cv_pdf,
                   roadmap_input, roadmap_md>>

\* the roadmap tab: if ats_results['missing_skills']:
\*     roadmap_md = generate_skills_roadmap(ats_results['missing_skills'])
Roadmap ==
    /\ pc = "roadmap"
    /\ pc' = "done"
    /\ IF ats_results # None /\ Val(ats_results).missing_skills # <<>>
       THEN /\ roadmap_input' = Some(Val(ats_results).missing_skills)
            /\ \E now \in Clock :
                 /\ clock' = now
                 /\ roadmap_md' = Some(generate_skills_roadmap(Val(roadmap_input'), now))
            /\ Log(<<Call("generate_skills_roadmap", Val(roadmap_input'), roadmap_md')>>)
            /\ UNCHANGED messages
       ELSE /\ UNCHANGED <<roadmap_input, roadmap_md, calls, clock>>
            /\ IF ats_results # None THEN Say("success", "no gaps detected") ELSE UNCHANGED messages
    /\ UNCHANGED <<inputs, workers, profiles, final_data, job_text, analysis, cv_pdf, portfolio_zip>>

Next ==
    \/ Validate
    \/ ParseCv
    \/ ParseLinkedin
    \/ SelectData
    \/ JobDescription
    \/ Analyze
    \/ OptimizedCv
    \/ Portfolio
    \/ Roadmap

Spec == Init /\ [][Next]_vars

\* Requests that differ in the length of the job listing, for the arithmetic
\* of the score.
\* the number of times the longest job descriptions repeat '1 year'
RepeatedYears == 94

\* a job description that lists the whole vocabulary and then r times '1 year'
LongListing(r) ==
    JobListing(Len(SKILL_KEYWORDS)) \o ". " \o JoinRange([k \in 1..r |-> "1 year"], 1, r)

LongListedJobs ==
    { [mode |-> "text", text |-> LongListing(r)] : r \in {RepeatedYears - 1, RepeatedYears} }

\* a CV that lists every term of the vocabulary but the last, and the years
AlmostAllCv ==
    [name |-> "almost.txt",
     text |-> "Pat Kim\nSkills: " \o JobListing(Len(SKILL_KEYWORDS) - 1) \o "\n1+ years experience",
     readable |-> TRUE]

InitListings ==
    /\ shell \in Shells
    /\ \/ /\ cv_file \in { Some(f) : f \in { g \in CvFiles : g.name \in {"min.TXT", "skills.txt"} } }
          /\ job_input \in ListedJobs
       \/ /\ cv_file \in {Some(MinCv), Some(AlmostAllCv)}
          /\ job_input \in LongListedJobs
    /\ linkedin_url = "" /\ response = FetchFailed
    /\ Start

SpecListings == InitListings /\ [][Next]_vars

(***************************************************************************)
(* utils.py: the functions called one by one                               *)
(***************************************************************************)

\* the most calls made on one profile
MaxCalls == 2

\* a CV whose lines hold markup characters
MarkupCv ==
    [name |-> "ann.txt", text |-> "Ann <i>Lee\nEmployment\nEngineer at A&B <Labs>", readable |-> TRUE]

\* a profile with nothing in its lists
EmptyListsProfile ==
    [raw_text |-> "", name |-> "Professional", email |-> "", phone |-> "",
     skills |-> <<>>, experience |-> <<>>, education |-> <<>>]

\* a profile with more entries in each list than either renderer shows
BigProfile ==
    [raw_text |-> "Kim Park, kim@park.dev, built and led many projects",
     name |-> "Kim Park", email |-> "kim@park.dev", phone |-> "555-0100",
     skills |-> <<"Angular", "Ansible", "Aws", "Azure", "Bash", "Cassandra", "Celery", "Django",
                  "Docker", "Figma", "Flask", "Flutter", "Gcp", "Kafka", "Kotlin", "Linux",
                  "Redis", "Rust">>,
     experience |-> [i \in 1..7 |->
                        [title |-> "Engineer at Firm " \o ToString(i),
                         description |-> IF i % 2 = 0 THEN "" ELSE "Ran the platform of unit " \o ToString(i)]],
     education |-> [i \in 1..6 |-> "Degree no. " \o ToString(i) \o " in Physics"]]

\* The file handed to parse_cv and the profile handed to the other functions.
CallRequests == {
    [file |-> MinCv, data |-> parse_cv(MinCv)],
    [file |-> MarkupCv, data |-> parse_cv(MarkupCv)],
    [file |-> MarkupCv, data |-> EmptyListsProfile],
    [file |-> MinCv, data |-> BigProfile] }

InitCalls ==
    /\ shell = "utils"
    /\ \E r \in CallRequests : cv_file = Some(r.file) /\ final_data = Some(r.data)
    /\ linkedin_url = "" /\ response = FetchFailed
    /\ job_input = [mode |-> "text", text |-> ShortJobText]
    /\ job_text = Some(ShortJobText)
    /\ pc = "call"
    /\ cv_data = None /\ parser_output = None /\ linkedin_data = None
    /\ ats_locals = None /\ ats_results = None
    /\ cv_pdf = None /\ portfolio_zip = None
    /\ roadmap_input = None /\ roadmap_md = None
    /\ messages = <<>> /\ calls = <<>> /\ clock = FirstDay
    /\ module_globals = ModuleGlobals /\ requests = <<>>

\* A parser that keeps its list of found skills from one call to the next.
CallParseCvAccumulating ==
    /\ pc = "call" /\ Len(calls) < MaxCalls
    /\ LET parsed == parse_cv(Val(cv_file))
           kept == IF cv_data = None THEN <<>> ELSE Val(cv_data).skills
       IN  cv_data' = Some([parsed EXCEPT !.skills = kept \o parsed.skills])
    /\ parser_output' = cv_data'
    /\ Log(<<Call("parse_cv", Val(cv_file), cv_data')>>)
    /\ UNCHANGED <<inputs, workers, pc, linkedin_data, final_data, job_text, analysis, artifacts,
                   messages, clock>>

\* parse_cv(file)
CallParseCv ==
    /\ pc = "call" /\ Len(calls) < MaxCalls
    /\ IF ParseCvRaises(Val(cv_file))
       THEN /\ UNCHANGED <<cv_data, parser_output>>
            /\ Log(<<Call("parse_cv", Val(cv_file), None)>>)
       ELSE /\ cv_data' = Some(parse_cv(Val(cv_file)))
            /\ parser_output' = cv_data'
            /\ Log(<<Call("parse_cv", Val(cv_file), cv_data')>>)
    /\ UNCHANGED <<inputs, workers, pc, linkedin_data, final_data, job_text, analysis, artifacts,
                   messages, clock>>

\* analyze_ats(cv_data, job_description)
CallAnalyzeAts ==
    /\ pc = "call" /\ Len(calls) < MaxCalls
    /\ ats_locals' = Some(AtsLocals(Val(final_data), Val(job_text)))
    /\ ats_results' = Some(AtsReturn(Val(ats_locals')))
    /\ Log(<<Call("analyze_ats", <<Val(final_data), Val(job_text)>>, ats_results')>>)
    /\ UNCHANGED <<inputs, workers, pc, profiles, final_data, job_text, artifacts, messages, clock>>

\* generate_optimized_cv(cv_data, job_description)
CallOptimizedCv ==
    /\ pc = "call" /\ Len(calls) < MaxCalls
    /\ \E now \in Clock : \E out \in BuildOutcomes(Val(final_data), job_text, now) :
         /\ clock' = now
         /\ cv_pdf' = IF out = None THEN cv_pdf ELSE out
         /\ Log(<<Call("generate_optimized_cv", <<Val(final_data), job_text>>, out)>>)
    /\ UNCHANGED <<inputs, workers, pc, profiles, final_data, job_text, analysis, portfolio_zip,
                   roadmap_input, roadmap_md, messages>>

\* generate_portfolio(cv_data)
CallPortfolio ==
    /\ pc = "call" /\ Len(calls) < MaxCalls
    /\ \E now \in Clock :
         /\ clock' = now
         /\ portfolio_zip' = Some(generate_portfolio(Val(final_data), now))
    /\ Log(<<Call("generate_portfolio", Val(final_data), portfolio_zip')>>)
    /\ UNCHANGED <<inputs, workers, pc, profiles, final_data, job_text, analysis, cv_pdf,
                   roadmap_input, roadmap_md, messages>>

\* generate_skills_roadmap(missing_skills), with the missing skills of the
\* analysis of the profile
CallRoadmap ==
    /\ pc = "call" /\ Len(calls) < MaxCalls
    /\ roadmap_input' = Some(analyze_ats(Val(final_data), Val(job_text)).missing_skills)
    /\ \E now \in Clock :
         /\ clock' = now
         /\ roadmap_md' = Some(generate_skills_roadmap(Val(roadmap_input'), now))
    /\ Log(<<Call("generate_skills_roadmap", Val(roadmap_input'), roadmap_md')>>)
    /\ UNCHANGED <<inputs, workers, pc, profiles, final_data, job_text, analysis, cv_pdf,
                   portfolio_zip, messages>>

NextCalls ==
    \/ CallParseCv
    \/ CallAnalyzeAts
    \/ CallOptimizedCv
    \/ CallPortfolio
    \/ CallRoadmap

SpecCalls == InitCalls /\ [][NextCalls]_vars

(***************************************************************************)
(* utils.py: the extraction helpers and the analysis, on given texts       *)
(***************************************************************************)

\* a line longer than the 120 characters kept of a title
LongLine ==
    "Migrated the order system and its data the order system and its data "
    \o "the order system and its data the order system and its data to the new platform"

\* CVs that differ in their first lines, their section headers, the lengths of
\* the lines of their experience section and their degrees
JaneResume ==
    "Jane Doe\nSoftware Engineer\njane@acme.io\nExperience\nSenior Engineer at Acme Corp\n"
    \o "Built Python services, 3+ years experience with Django\n"
    \o "Education\nB.S. Computer Science, MIT"

BobResume ==
    "CURRICULUM\nSkills summary of Bob\nI am the one and only Bob\nbob ray@example.com\na b\n"
    \o "My Skills Page\nBob Ray Smith\nEmployment History of note\nnone yet"

RayResume ==
    "Ray Cole\nnotes on WORK  EXPERIENCE at large\nAcme Corp 2019\n"
    \o "Built the billing pipeline used by forty teams\nshort\n\nInitech 2015-2018\n"
    \o "Maintained the reporting stack of the firm\n" \o LongLine
    \o "\nGlobex 2012\nLast line beyond the cap of five lines\nProjects\nnone"

EveResume ==
    "Eve Lin\nEmployment\nAcme Corp 2019\nInitech 2015-2018\n"
    \o "Maintained the reporting stack of the firm\nGlobex Ltd 2012\nHooli Inc 2010\n"
    \o "Stark Industries 2008\nAwards: none, Education: none\n"

KaiResume == "kai\nnone"

UmaResume ==
    "Uma Roy\nProfessional Experience & History\nEducation\n"
    \o "University of Somewhere, on the long road to the north of the old town: "
    \o "Master of Science in Data, then an MBA and a PhD, all of them between the "
    \o "years 2001 and 2012, with honours and distinction\n"

\* a job description in which the years pattern matches three times
YearsJobText == "Need 3+ years Python, 3 years SQL, 10+year Go, 2 yrs Rust"

TextFile(name, text) == [name |-> name, text |-> text, readable |-> TRUE]

\* The CV and the job description of a call.
TextRequests == {
    [file |-> TextFile("jane.txt", JaneResume), job |-> ShortJobText],
    [file |-> TextFile("jane.txt", JaneResume), job |-> YearsJobText],
    [file |-> TextFile("bob.txt", BobResume), job |-> ShortJobText],
    [file |-> TextFile("ray.txt", RayResume), job |-> ShortJobText],
    [file |-> TextFile("ray.txt", RayResume), job |-> YearsJobText],
    [file |-> TextFile("eve.txt", EveResume), job |-> YearsJobText],
    [file |-> TextFile("kai.txt", KaiResume), job |-> ShortJobText],
    [file |-> TextFile("uma.txt", UmaResume), job |-> YearsJobText] }

InitTexts ==
    /\ shell = "utils"
    /\ \E r \in TextRequests :
         /\ cv_file = Some(r.file)
         /\ final_data = Some(parse_cv(r.file))
         /\ job_input = [mode |-> "text", text |-> r.job]
         /\ job_text = Some(r.job)
    /\ linkedin_url = "" /\ response = FetchFailed
    /\ pc = "call"
    /\ cv_data = None /\ parser_output = None /\ linkedin_data = None
    /\ ats_locals = None /\ ats_results = None
    /\ cv_pdf = None /\ portfolio_zip = None
    /\ roadmap_input = None /\ roadmap_md = None
    /\ messages = <<>> /\ calls = <<>> /\ clock = FirstDay
    /\ module_globals = ModuleGlobals /\ requests = <<>>

\* _extract_name(text)
CallExtractName ==
    /\ pc = "call" /\ Len(calls) < MaxCalls
    /\ LET text == Val(final_data).raw_text
       IN  Log(<<Call("_extract_name", text, _extract_name(text))>>)
    /\ UNCHANGED <<inputs, workers, pc, profiles, final_data, job_text, analysis, artifacts, messages,
                   clock>>

\* _extract_experience(text)
CallExtractExperience ==
    /\ pc = "call" /\ Len(calls) < MaxCalls
    /\ LET text == Val(final_data).raw_text
       IN  Log(<<Call("_extract_experience", text, _extract_experience(text))>>)
    /\ UNCHANGED <<inputs, workers, pc, profiles, final_data, job_text, analysis, artifacts, messages,
                   clock>>

\* _extract_education(text)
CallExtractEducation ==
    /\ pc = "call" /\ Len(calls) < MaxCalls
    /\ LET text == Val(final_data).raw_text
       IN  Log(<<Call("_extract_education", text, _extract_education(text))>>)
    /\ UNCHANGED <<inputs, workers, pc, profiles, final_data, job_text, analysis, artifacts, messages,
                   clock>>

NextTexts ==
    \/ CallExtractName
    \/ CallExtractExperience
    \/ CallExtractEducation
    \/ CallAnalyzeAts

SpecTexts == InitTexts /\ [][NextTexts]_vars

(***************************************************************************)
(* utils.py: two requests served at the same time                          *)
(***************************************************************************)

\* a job description whose number of years is followed by 'experience'
ExperiencedJobText == "Wanted: 3+ years experience with Python and SQL"

\* The profile and the job description of a request (the last holds no keyword).
WorkerRequests == {
    [cv_data |-> parse_cv(MinCv), job_description |-> ShortJobText],
    [cv_data |-> parse_cv(MarkupCv), job_description |-> ExperiencedJobText],
    [cv_data |-> parse_cv(MinCv), job_description |-> "Nothing we could name"] }

Workers == {1, 2}

\* The locals of a request before its first statement.
WorkerStart(r) ==
    [pc |-> "lower", cv_data |-> r.cv_data, job_description |-> r.job_description,
     cv_lower |-> None, job_lower |-> None, found |-> None, matched |-> None, missing |-> None,
     score |-> None, tips |-> None, result |-> None, now |-> None, roadmap |-> None,
     overlapped |-> FALSE]

InitWorkers ==
    /\ shell = "utils"
    /\ module_globals = ModuleGlobals
    /\ requests \in [Workers -> { WorkerStart(r) : r \in WorkerRequests }]
    /\ cv_file = None /\ linkedin_url = "" /\ response = FetchFailed /\ job_input = NoJob
    /\ pc = "workers"
    /\ cv_data = None /\ parser_output = None /\ linkedin_data = None /\ final_data = None
    /\ job_text = None /\ ats_locals = None /\ ats_results = None
    /\ cv_pdf = None /\ portfolio_zip = None
    /\ roadmap_input = None /\ roadmap_md = None
    /\ messages = <<>> /\ calls = <<>> /\ clock = FirstDay

\* whether a request has begun and has not ended
InFlight(w) == requests[w].pc \notin {"lower", "done"}

\* A statement of request w: it runs at 'at', leaves the locals 'locals' and
\* goes to 'to'; it writes nothing but the locals of w.  (overlapped records
\* that a statement of w ran while another request was in flight.)
WorkerStep(w, at, locals, to) ==
    /\ requests[w].pc = at
    /\ requests' = [requests EXCEPT ![w] =
           [locals EXCEPT !.pc = to,
                          !.overlapped = @ \/ \E v \in Workers \ {w} : InFlight(v)]]

\* cv_lower = cv_data.get('raw_text', '').lower(); job_lower = job_description.lower()
WorkerLower ==
    /\ \E w \in Workers :
         LET my == requests[w]
         IN  WorkerStep(w, "lower", [my EXCEPT !.cv_lower = Lower(my.cv_data.raw_text),
                                               !.job_lower = Lower(my.job_description)],
                        "vocabulary")
    /\ UNCHANGED <<inputs, module_globals, pc, profiles, final_data, job_text, analysis,
                   artifacts, messages, calls, clock>>

\* A loop over the years that appends each keyword to the vocabulary as well.
WorkerYearsKeepingTerms ==
    /\ \E w \in Workers :
         LET my == requests[w]
             years == YearsKeywords(my.job_lower, 1)
         IN  /\ WorkerStep(w, "years", [my EXCEPT !.found = @ \o years], "classify")
             /\ module_globals' = [module_globals EXCEPT !.SKILL_KEYWORDS = @ \o years]
    /\ UNCHANGED <<inputs, pc, profiles, final_data, job_text, analysis,
                   artifacts, messages, calls, clock>>

\* _extract_job_keywords: for m in re.finditer(...): found.append(...)
WorkerYears ==
    /\ \E w \in Workers :
         LET my == requests[w]
         IN  WorkerStep(w, "years", [my EXCEPT !.found = @ \o YearsKeywords(my.job_lower, 1)],
                        "classify")
    /\ UNCHANGED <<inputs, module_globals, pc, profiles, final_data, job_text, analysis,
                   artifacts, messages, calls, clock>>

\* _extract_job_keywords: for kw in SKILL_KEYWORDS: if kw in job_text: found.append(kw)
WorkerVocabulary ==
    /\ \E w \in Workers :
         LET my == requests[w]
         IN  WorkerStep(w, "vocabulary",
                        [my EXCEPT !.found = FoundKeywords(my.job_lower, module_globals.SKILL_KEYWORDS)],
                        "years")
    /\ UNCHANGED <<inputs, module_globals, pc, profiles, final_data, job_text, analysis,
                   artifacts, messages, calls, clock>>

\* for kw in job_kws: matched.append(kw) or missing.append(kw)
WorkerClassify ==
    /\ \E w \in Workers :
         LET my == requests[w]
             lists == Classify(my.found, my.cv_lower, 1, Len(my.found))
         IN  WorkerStep(w, "classify",
                        [my EXCEPT !.matched = lists.matched, !.missing = lists.missing], "score")
    /\ UNCHANGED <<inputs, module_globals, pc, profiles, final_data, job_text, analysis,
                   artifacts, messages, calls, clock>>

\* score = round(...) if job_kws else 50; score = max(0, min(100, score))
WorkerScore ==
    /\ \E w \in Workers :
         LET my == requests[w]
         IN  WorkerStep(w, "score", [my EXCEPT !.score = ScoreOf(Len(my.matched), Len(my.found))],
                        "tips")
    /\ UNCHANGED <<inputs, module_globals, pc, profiles, final_data, job_text, analysis,
                   artifacts, messages, calls, clock>>

\* tips = _generate_tips(cv_data, missing, cv_lower)
WorkerTips ==
    /\ \E w \in Workers :
         LET my == requests[w]
         IN  WorkerStep(w, "tips",
                        [my EXCEPT !.tips = _generate_tips(my.cv_data, my.missing, my.cv_lower)],
                        "return")
    /\ UNCHANGED <<inputs, module_globals, pc, profiles, final_data, job_text, analysis,
                   artifacts, messages, calls, clock>>

\* return {'score': ..., 'matched_skills': ..., 'missing_skills': missing[:10], 'tips': ...}
WorkerReturn ==
    /\ \E w \in Workers :
         LET my == requests[w]
             locals == [cv_lower |-> my.cv_lower, job_kws |-> my.found, matched |-> my.matched,
                        missing |-> my.missing, score |-> my.score, tips |-> my.tips]
         IN  WorkerStep(w, "return", [my EXCEPT !.result = AtsReturn(locals)], "roadmap")
    /\ UNCHANGED <<inputs, module_globals, pc, profiles, final_data, job_text, analysis,
                   artifacts, messages, calls, clock>>

\* generate_skills_roadmap with the table db in the place of ROADMAP_DB
RoadmapFrom(db, missing_skills, now) ==
    LET first == Take(missing_skills, RoadmapCap)
        Info(skill) == DictGet(db, Lower(skill), GenericRoadmapInfo)
    IN  [generated_on |-> StrftimeLong(now),
         entries |-> [i \in 1..Len(first) |->
                         [RoadmapEntry(i, first[i]) EXCEPT !.weeks = Info(first[i]).weeks,
                                                           !.resources = Info(first[i]).resources]]]

\* if ats_results['missing_skills']: generate_skills_roadmap(...), which
\* reads ROADMAP_DB and the clock
WorkerRoadmap ==
    /\ \E w \in Workers :
         LET my == requests[w]
         IN  /\ my.pc = "roadmap"
             /\ IF my.result.missing_skills = <<>>
                THEN WorkerStep(w, "roadmap", my, "done") /\ UNCHANGED clock
                ELSE \E now \in Clock :
                       /\ clock' = now
                       /\ WorkerStep(w, "roadmap",
                                     [my EXCEPT !.now = now,
                                                !.roadmap = RoadmapFrom(module_globals.ROADMAP_DB,
                                                                        my.result.missing_skills, now)],
                                     "done")
    /\ UNCHANGED <<inputs, module_globals, pc, profiles, final_data, job_text, analysis,
                   artifacts, messages, calls>>

NextWorkers ==
    \/ WorkerLower
    \/ WorkerVocabulary
    \/ WorkerYears
    \/ WorkerClassify
    \/ WorkerScore
    \/ WorkerTips
    \/ WorkerReturn
    \/ WorkerRoadmap

SpecWorkers == InitWorkers /\ [][NextWorkers]_vars

(***************************************************************************)
(* Properties                                                              *)
(***************************************************************************)

\* the lower-cased raw text of the profile analyze_ats was given
CvLower == Lower(Val(final_data).raw_text)

\* whether the i-th job keyword of the analysis occurs in the profile's text
KeywordFound(i) == Contains(CvLower, Val(ats_locals).job_kws[i])

\* how many of the first i job keywords occur in the profile's text
FoundUpTo(i) == Cardinality({ j \in 1..i : KeywordFound(j) })

\* a / n rounded to the nearest integer, an exact half to the even neighbour
RoundHalfEven(a, n) ==
    LET q == a \div n
        r == a % n
    IN  IF 2 * r > n THEN q + 1
        ELSE IF 2 * r < n THEN q
        ELSE q + (q % 2)

\* C1: whatever the profile and the job text, the score analyze_ats returns is
\* an integer from 0 to 100.
ScoreBounds ==
    ats_results # None =>
        /\ Val(ats_results).score \in Int
        /\ 0 <= Val(ats_results).score
        /\ Val(ats_results).score <= 100

\* an analysis of a profile that has some but not all of several job keywords
ScoreBoundsWitness ==
    /\ ats_results # None
    /\ Len(Val(ats_locals).job_kws) >= 10
    /\ Val(ats_locals).matched # <<>>
    /\ Val(ats_locals).missing # <<>>
    /\ Val(ats_results).score \in 1..99

\* C2: the score is 100 * m / n rounded to the nearest integer with an exact
\* half going to the even neighbour, where n is the number of job keywords and
\* m the number of them found in the profile's text, and it is 50 when n = 0.
ScoreIsRoundedRatio ==
    ats_results # None =>
        LET n == Len(Val(ats_locals).job_kws)
            m == FoundUpTo(n)
        IN  Val(ats_results).score = IF n = 0 THEN 50 ELSE RoundHalfEven(100 * m, n)

\* C3: every job keyword is classified exactly once: it is in matched if and
\* only if it occurs in the lower-cased raw text of the profile, else in the
\* missing list before truncation, and both lists keep the order of job_kws
\* (stated where analyze_ats has just returned).
MatchedMissingPartition ==
    (ats_locals # None /\ pc = "optimized_cv") =>
        LET a == Val(ats_locals)
            n == Len(a.job_kws)
        IN  /\ Len(a.matched) + Len(a.missing) = n
            /\ Len(a.matched) = FoundUpTo(n)
            /\ \A i \in 1..n :
                 IF KeywordFound(i)
                 THEN a.matched[FoundUpTo(i)] = a.job_kws[i]
                 ELSE a.missing[i - FoundUpTo(i)] = a.job_kws[i]
            /\ Range(a.matched) \cap Range(a.missing) = {}
            /\ Val(ats_results).matched_skills = a.matched

\* an analysis with several keywords on each side, a missing one among the
\* matched ones, and a keyword extracted twice
MatchedMissingPartitionWitness ==
    /\ ats_locals # None
    /\ Len(Val(ats_locals).matched) >= 2
    /\ Len(Val(ats_locals).missing) >= 2
    /\ \E i, j \in 1..Len(Val(ats_locals).job_kws) :
          i < j /\ ~KeywordFound(i) /\ KeywordFound(j)
    /\ \E i, j \in 1..Len(Val(ats_locals).job_kws) :
          i < j /\ Val(ats_locals).job_kws[i] = Val(ats_locals).job_kws[j]

\* C4: the missing_skills analyze_ats returns are the first 10 entries of the
\* full missing list (all of them when there are fewer), and the roadmap
\* generator is only ever called with that returned list.
MissingSkillsTruncated ==
    /\ ats_results # None =>
         LET full == Val(ats_locals).missing
             cut == Val(ats_results).missing_skills
         IN  /\ Len(cut) <= 10
             /\ Len(cut) = IF Len(full) < 10 THEN Len(full) ELSE 10
             /\ \A i \in 1..Len(cut) : cut[i] = full[i]
    /\ roadmap_input # None =>
         /\ ats_results # None
         /\ Val(roadmap_input) = Val(ats_results).missing_skills
         /\ Len(Val(roadmap_input)) <= 10

\* a roadmap requested after an analysis that found more than 10 missing keywords
MissingSkillsTruncatedWitness ==
    /\ roadmap_input # None
    /\ Len(Val(ats_locals).missing) > 10
    /\ Len(Val(roadmap_input)) = 10

\* what resource_map holds for a skill, or the generic suggestion
TipResource(skill) ==
    IF \E i \in 1..Len(resource_map) : resource_map[i].key = Lower(skill)
    THEN (CHOOSE row \in Range(resource_map) : row.key = Lower(skill)).value
    ELSE "YouTube tutorials + freeCodeCamp"

\* the tips in their fixed order, before the cut to 8
TipSequence ==
    LET missing == Val(ats_locals).missing
        lacks(words) == \A w \in words : ~Contains(CvLower, w)
    IN  [i \in 1..(IF Len(missing) < 4 THEN Len(missing) ELSE 4) |->
            "Add \"" \o Title(missing[i]) \o "\" - Learn via: " \o TipResource(missing[i])
                \o " (~2-4 hrs)"]
        \o (IF lacks({"project"}) THEN <<ProjectsTip>> ELSE <<>>)
        \o (IF lacks({"increased", "improved", "reduced", "grew", "%"})
            THEN <<QuantifyTip>> ELSE <<>>)
        \o (IF lacks({"certification", "certified"}) THEN <<CertificationsTip>> ELSE <<>>)
        \o (IF lacks({"developed", "led", "designed", "built", "implemented"})
            THEN <<ActionVerbsTip>> ELSE <<>>)
        \o (IF Len(Val(final_data).skills) < 6 THEN <<ExpandSkillsTip>> ELSE <<>>)

\* C5: the tips are the first 8 entries of the fixed sequence: a skill tip for
\* each of the first 4 missing skills, then the Projects, quantify,
\* certifications, action-verbs and expand-skills tips, each if its rule fires
\* (stated where analyze_ats has just returned).
TipsAreFixedSequence ==
    (ats_results # None /\ pc = "optimized_cv") =>
        LET tips == Val(ats_results).tips
        IN  /\ Len(tips) <= 8
            /\ Len(tips) = IF Len(TipSequence) < 8 THEN Len(TipSequence) ELSE 8
            /\ \A i \in 1..Len(tips) : tips[i] = TipSequence[i]

\* an analysis whose nine tips (four skill tips, one of a mapped skill and one
\* of an unmapped skill, and all five rule tips) are cut to eight
TipsAreFixedSequenceWitness ==
    /\ ats_results # None
    /\ Len(TipSequence) = 9
    /\ Len(Val(ats_results).tips) = 8
    /\ Val(ats_results).tips[8] = ActionVerbsTip
    /\ \E i, j \in 1..4 : /\ TipResource(Val(ats_locals).missing[i]) = "YouTube tutorials + freeCodeCamp"
                          /\ TipResource(Val(ats_locals).missing[j]) # "YouTube tutorials + freeCodeCamp"

\* no two entries of the list are equal when compared without regard to case
NoCaseDuplicates(list) ==
    \A i, j \in 1..Len(list) : i # j => Lower(list[i]) # Lower(list[j])

\* no two vocabulary terms have title-cased forms that differ only in case
VocabularyTitlesDiffer ==
    \A i, j \in 1..Len(SKILL_KEYWORDS) :
        i # j => Lower(Title(SKILL_KEYWORDS[i])) # Lower(Title(SKILL_KEYWORDS[j]))

\* C6: the skills of a parsed profile, of a fetched profile and of the profile
\* after the two are merged hold no two entries that are equal under
\* case-insensitive comparison.
SkillsHaveNoCaseDuplicates ==
    /\ VocabularyTitlesDiffer
    /\ cv_data # None => NoCaseDuplicates(Val(cv_data).skills)
    /\ linkedin_data # None => NoCaseDuplicates(Val(linkedin_data).skills)
    /\ final_data # None => NoCaseDuplicates(Val(final_data).skills)

\* a document profile merged with a fetched profile that has some of its skills
SkillsHaveNoCaseDuplicatesWitness ==
    /\ pc = "select"
    /\ shell = "streamlit_app"
    /\ cv_file # None /\ linkedin_data # None
    /\ \E i \in 1..Len(Val(linkedin_data).skills) :
          Contains(Lower(Val(cv_data).raw_text), Lower(Val(linkedin_data).skills[i]))
    /\ Len(Val(cv_data).skills) > Len(Val(linkedin_data).skills)

\* the vocabulary terms that occur in a lower-cased text
TermsIn(lower) == { kw \in Range(SKILL_KEYWORDS) : Contains(lower, kw) }

\* the position of a skill's term in the vocabulary
VocabularyIndex(skill) ==
    CHOOSE i \in 1..Len(SKILL_KEYWORDS) : SKILL_KEYWORDS[i] = Lower(skill)

\* the skills are the title-cased terms of the text, each once, ascending
SkillsOfText(skills, text) ==
    LET terms == TermsIn(Lower(text))
    IN  /\ Range(skills) = { Title(kw) : kw \in terms }
        /\ Len(skills) = Cardinality(terms)
        /\ \A i \in 1..(Len(skills) - 1) : StrLess(skills[i], skills[i + 1])
        /\ "javascript" \in terms =>
              \E i, j \in 1..Len(skills) : skills[i] = "Java" /\ skills[j] = "Javascript"

\* C7: the skills of a parsed profile are exactly the title-cased forms of the
\* vocabulary terms that are substrings of the lower-cased text, each once, in
\* ascending lexicographic order; a text with 'javascript' gives Java and Javascript.
SkillsAreSortedTerms ==
    /\ (pc = "parse_linkedin" /\ cv_data # None) =>
          SkillsOfText(Val(cv_data).skills, Strip(Val(cv_file).text))
    /\ (linkedin_data # None /\ Val(linkedin_data).skills # LinkedinFallbackSkills) =>
          SkillsOfText(Val(linkedin_data).skills, response.body_text)

\* a parsed CV that mentions JavaScript, whose skills are not in vocabulary order
SkillsAreSortedTermsWitness ==
    /\ pc = "parse_linkedin" /\ cv_data # None
    /\ Contains(Lower(Val(cv_file).text), "javascript")
    /\ Val(cv_data).skills = <<"Aws", "Java", "Javascript">>
    /\ VocabularyIndex("Aws") > VocabularyIndex("Javascript")

\* whether a line passes the name heuristic, from its words
PassesNameHeuristic(line) ==
    /\ WordCount(line) \in 2..4
    /\ ~Contains(line, "@")
    /\ Len(line) > 3
    /\ \A h \in {"experience", "education", "skills", "summary", "objective", "contact"} :
          ~StartsAt(Lower(line), 1, h)

\* C8: parsing a text yields every field, with the placeholder 'Professional'
\* when no line passes the name heuristic, "" when there is no email or phone
\* pattern, the placeholder entry when no experience is extracted and the
\* placeholder string when no degree keyword occurs; experience and education
\* are never empty.
ParsingFallsBackToPlaceholders ==
    (pc = "parse_linkedin" /\ cv_data # None) =>
        LET text == Strip(Val(cv_file).text)
            lower == Lower(text)
            profile == Val(cv_data)
            lines == NonBlankLines(text)
        IN  /\ DOMAIN profile =
                  {"raw_text", "name", "email", "phone", "skills", "experience", "education"}
            /\ profile.raw_text = text
            /\ profile.name # ""
            /\ (\A i \in 1..Len(lines) : ~PassesNameHeuristic(lines[i]))
                  => profile.name = "Professional"
            /\ ~Contains(text, "@") => profile.email = ""
            /\ (\A i \in 1..Len(text) : ~IsDigit(CharAt(text, i))) => profile.phone = ""
            /\ profile.experience # <<>>
            /\ \A i \in 1..Len(profile.experience) : profile.experience[i].title # ""
            /\ (~Contains(lower, "experience") /\ ~Contains(lower, "employment"))
                  => profile.experience = <<[title |-> "Professional Experience",
                                             description |-> "See CV for details."]>>
            /\ (\A i \in 1..Len(lines) : Len(lines[i]) <= 8)
                  => profile.experience = <<[title |-> "Professional Experience",
                                             description |-> "See CV for details."]>>
            /\ profile.education # <<>>
            /\ (\A kw \in {"bachelor", "master", "phd", "doctorate", "bs", "b.s", "ms", "m.s",
                           "ba", "b.a", "ma", "m.a", "mba"} : ~Contains(lower, kw))
                  => profile.education = <<"Education details in CV">>

\* a parsed CV with no name line, email, phone, experience or degree
ParsingFallsBackToPlaceholdersWitness ==
    /\ pc = "parse_linkedin" /\ cv_data # None
    /\ Val(cv_data).raw_text # ""
    /\ Val(cv_data).name = "Professional"
    /\ Val(cv_data).email = "" /\ Val(cv_data).phone = ""
    /\ Val(cv_data).experience = PlaceholderExperience
    /\ Val(cv_data).education = PlaceholderEducation

\* C9: in both shells the merged profile keeps the fields of the document
\* profile, and its skills are the document's skills in their order followed
\* by the fetched skills the document lacks, in the fetched order.
MergeKeepsPrimaryThenSecondary ==
    (pc = "select" /\ cv_file # None /\ linkedin_data # None) =>
        LET primary == parse_cv(Val(cv_file))
            New(skill) == skill \notin Range(primary.skills)
        IN  Val(cv_data) = [primary EXCEPT
                !.skills = primary.skills \o SelectSeq(Val(linkedin_data).skills, New)]

\* the table's entry for a skill, or the generic estimate and resources
RoadmapInfo(skill) ==
    IF \E row \in Range(ROADMAP_DB) : row.key = Lower(skill)
    THEN (CHOOSE row \in Range(ROADMAP_DB) : row.key = Lower(skill)).value
    ELSE [weeks |-> "2-4",
          resources |-> <<"YouTube Tutorials", "freeCodeCamp", "Udemy (free coupons)">>]

\* C10: the roadmap has one entry for each of the first 8 missing skills, in
\* order and numbered from 1, with the table's duration and 3 resources or the
\* generic '2-4' weeks and 3 generic resources, and exactly 3 action steps:
\* learn, build a project, publish and update the CV.
RoadmapEntriesFollowTable ==
    roadmap_md # None =>
        LET given == Val(roadmap_input)
            entries == Val(roadmap_md).entries
        IN  /\ Len(entries) = IF Len(given) < 8 THEN Len(given) ELSE 8
            /\ \A i \in 1..Len(entries) :
                 /\ entries[i].number = i
                 /\ entries[i].skill = Title(given[i])
                 /\ entries[i].weeks = RoadmapInfo(given[i]).weeks
                 /\ entries[i].resources = RoadmapInfo(given[i]).resources
                 /\ Len(entries[i].resources) = 3
                 /\ Len(entries[i].steps) = 3
                 /\ StartsAt(entries[i].steps[1], 1, "Week 1 - Complete a beginner tutorial")
                 /\ StartsAt(entries[i].steps[2], 1, "Week 2 - Build a small hands-on project")
                 /\ StartsAt(entries[i].steps[3], 1, "Week 3+ - Add the project to your GitHub")

\* a roadmap of 8 entries made from 10 missing skills, with a skill of the
\* table and a skill outside it
RoadmapEntriesFollowTableWitness ==
    /\ roadmap_md # None
    /\ Len(Val(roadmap_input)) = 10
    /\ Len(Val(roadmap_md).entries) = 8
    /\ \E i, j \in 1..8 : /\ Val(roadmap_md).entries[i].weeks = "2-4"
                          /\ Val(roadmap_md).entries[j].weeks = "4-6"

\* whether the text holds a character of markup
HasMarkupChar(s) == Contains(s, "<") \/ Contains(s, ">") \/ Contains(s, "&")

\* the profile a call of a renderer was given
RenderedProfile(call) ==
    IF call.fn = "generate_optimized_cv" THEN call.arg[1] ELSE call.arg

\* the texts a renderer returned: the text of each paragraph of the document,
\* or the page and the README of the site
RenderedTexts(call) ==
    IF call.fn = "generate_optimized_cv"
    THEN [k \in 1..Len(Val(call.out).story) |-> Val(call.out).story[k].text]
    ELSE Val(call.out)[1].data \o <<Val(call.out)[2].data>>

Renderers == {"generate_optimized_cv", "generate_portfolio"}

\* C11: neither renderer puts a profile field that holds '<', '>' or '&' into
\* its output as it is: such a field is neutralized (escaped) first.
MarkupIsNeutralized ==
    \A i \in 1..Len(calls) :
        (calls[i].fn \in Renderers /\ calls[i].out # None) =>
            LET fields == ProfileFields(RenderedProfile(calls[i]))
                texts == RenderedTexts(calls[i])
            IN  \A k \in 1..Len(fields) :
                    HasMarkupChar(fields[k]) =>
                        \A t \in 1..Len(texts) : ~Contains(texts[t], fields[k])

\* whether one of the lists of the profile is empty
SomeListEmpty(data) == data.skills = <<>> \/ data.experience = <<>> \/ data.education = <<>>

\* C12: on a profile with an empty skills, experience or education list,
\* analyze_ats, generate_optimized_cv and generate_portfolio return (a field
\* read as markup apart), and what the two renderers return is not empty.
EmptyListsAreRendered ==
    \A i \in 1..Len(calls) :
        LET call == calls[i]
        IN  /\ (call.fn = "analyze_ats" /\ SomeListEmpty(call.arg[1])) => call.out # None
            /\ (call.fn = "generate_optimized_cv" /\ SomeListEmpty(call.arg[1])
                    /\ ~ReadAsMarkup(call.arg[1])) =>
                  /\ call.out # None
                  /\ Val(call.out).header # ""
                  /\ Val(call.out).story # <<>>
            /\ (call.fn = "generate_portfolio" /\ SomeListEmpty(call.arg)) =>
                  /\ call.out # None
                  /\ Val(call.out) # <<>>
                  /\ \A e \in 1..Len(Val(call.out)) : Len(Val(call.out)[e].data) > 0

\* both renderers have returned for the profile whose three lists are empty
EmptyListsAreRenderedWitness ==
    /\ \E i \in 1..Len(calls) :
          /\ calls[i].fn = "generate_optimized_cv" /\ calls[i].out # None
          /\ calls[i].arg[1].skills = <<>> /\ calls[i].arg[1].experience = <<>>
          /\ calls[i].arg[1].education = <<>>
    /\ \E i \in 1..Len(calls) :
          /\ calls[i].fn = "generate_portfolio"
          /\ calls[i].arg.skills = <<>> /\ calls[i].arg.experience = <<>>
          /\ calls[i].arg.education = <<>>

\* the texts of the paragraphs of the section of the story under a heading
SectionTexts(story, heading) ==
    IF \E i \in 1..Len(story) : story[i] = Para("Section", heading)
    THEN LET start == CHOOSE i \in 1..Len(story) : story[i] = Para("Section", heading)
             end == CHOOSE j \in (start + 1)..(Len(story) + 1) :
                        /\ j = Len(story) + 1 \/ story[j].style = "Section"
                        /\ \A k \in (start + 1)..(j - 1) : story[k].style # "Section"
         IN  [k \in 1..(end - start - 1) |-> story[start + k].text]
    ELSE <<>>

\* the places in the list of the items that occur in one of the texts
ShownIn(texts, items) ==
    { k \in 1..Len(items) : \E t \in 1..Len(texts) : Contains(texts[t], items[k]) }

\* the first entries of a list of n, at most cap of them
FirstPlaces(cap, n) == 1..(IF n < cap THEN n ELSE cap)

\* the titles of the experience entries
Titles(experience) == [i \in 1..Len(experience) |-> experience[i].title]

AfterScheme(url) ==
    IF Contains(url, "//")
    THEN 2 + CHOOSE i \in 1..Len(url) :
                 /\ SubSeq(url, i, i + 1) = "//"
                 /\ \A j \in 1..(i - 1) : SubSeq(url, j, j + 1) # "//"
    ELSE 1

\* the host of a URL: what stands between the "//" and the next "/"
HostOf(url) ==
    LET rest == SubSeq(url, AfterScheme(url), Len(url))
    IN  IF Contains(rest, "/")
        THEN SubSeq(rest, 1, (CHOOSE i \in 1..Len(rest) :
                                 /\ SubSeq(rest, i, i) = "/"
                                 /\ \A j \in 1..(i - 1) : SubSeq(rest, j, j) # "/") - 1)
        ELSE rest

\* whether the host is linkedin.com or one of its subdomains
IsLinkedinHost(host) == host = "linkedin.com" \/ EndsWith(host, ".linkedin.com")

\* C14: parse_linkedin fails for every URL whose host is not linkedin.com, and
\* has issued no request by then: a request is only made for a URL of that
\* host.
OnlyLinkedinHostIsFetched ==
    \A i \in 1..Len(calls) :
        (calls[i].fn = "parse_linkedin" /\ ~IsLinkedinHost(HostOf(calls[i].arg))) =>
            /\ calls[i].out = None
            /\ i > 1 => calls[i - 1].fn # "requests.get"

\* what is None when no profile was built and nothing was scored or rendered
NothingBuilt ==
    /\ cv_data = None /\ parser_output = None /\ linkedin_data = None /\ final_data = None
    /\ job_text = None /\ ats_locals = None /\ ats_results = None
    /\ cv_pdf = None /\ portfolio_zip = None /\ roadmap_input = None /\ roadmap_md = None

\* C15: when the text of the uploaded document cannot be extracted (unsupported
\* extension, undecodable PDF, text that is not UTF-8), the request ends with
\* the error at once: the one call of parse_cv is the only call made, no
\* profile is built and nothing is scored or rendered, also when a profile URL
\* was given.
DocumentFailureEndsRequest ==
    (cv_file # None /\ Val(cv_file) \in BadCvFiles /\ pc \notin {"validate", "parse_cv"}) =>
        /\ pc = "done"
        /\ calls = <<[fn |-> "parse_cv", arg |-> Val(cv_file), out |-> None]>>
        /\ messages = <<[level |-> "error", what |-> "CV parse failed"]>>
        /\ NothingBuilt

\* a request with a text file that is not UTF-8 and a profile URL has ended
DocumentFailureEndsRequestWitness ==
    /\ pc = "done"
    /\ cv_file # None /\ Val(cv_file).name = "latin1.txt"
    /\ linkedin_url = LinkedinUrl
    /\ Len(messages) = 1

\* C16: when the fetch of a URL (profile or job posting) has failed and a
\* document was parsed, the failure is shown as a warning and the request goes
\* on to render the artifacts.
FailedFetchOnlyWarns ==
    (/\ pc = "done"
     /\ parser_output # None
     /\ \E i \in 1..Len(calls) : calls[i].fn = "requests.get" /\ calls[i].out = None
     /\ job_input.mode = "file" => job_input.file.readable) =>
        /\ \E i \in 1..Len(calls) : calls[i].fn = "generate_optimized_cv"
        /\ \E i \in 1..Len(messages) : messages[i].level = "warning"
        /\ \A i \in 1..Len(messages) : messages[i].level # "error"

\* a request with neither a document nor a profile URL
NoSource == cv_file = None /\ linkedin_url = ""

\* a request that has ended with the validation error and nothing else
EndedInValidationError ==
    /\ pc = "done"
    /\ messages = <<[level |-> "error", what |-> "Please upload a CV or provide a LinkedIn URL"]>>
    /\ calls = <<>>
    /\ NothingBuilt

\* C17: a request with neither a document nor a profile URL ends with the
\* validation error, and before any other step: its first step ends it, and
\* once it has left the validation it has ended with that error alone, no
\* call made and nothing built.
NoSourceEndsInValidationError ==
    /\ [](NoSource /\ pc # "validate" => EndedInValidationError)
    /\ [][NoSource /\ pc = "validate" => EndedInValidationError']_vars

\* a request without a source that has ended, a job description having been given
NoSourceEndsInValidationErrorWitness ==
    NoSource /\ pc = "done" /\ job_input.mode = "text"

Generators == {"generate_skills_roadmap", "generate_optimized_cv", "generate_portfolio"}

\* C18: generate_skills_roadmap, generate_optimized_cv and generate_portfolio
\* are functions of their arguments: two calls of one of them with equal
\* arguments that both return, return equal results.
GeneratorsArePure ==
    \A i, j \in 1..Len(calls) :
        (/\ calls[i].fn \in Generators /\ calls[i].fn = calls[j].fn
         /\ calls[i].arg = calls[j].arg
         /\ calls[i].out # None /\ calls[j].out # None) =>
            calls[i].out = calls[j].out

ProfileKeys == {"raw_text", "name", "email", "phone", "skills", "experience", "education"}

ProfileIsLeftUnchanged ==
    [][/\ pc \in {"analyze", "optimized_cv", "portfolio", "roadmap"} =>
            /\ final_data' = final_data
            /\ cv_data' = cv_data
            /\ parser_output' = parser_output
            /\ (pc # "analyze" /\ ats_results # None) =>
                   Val(ats_results').missing_skills = Val(ats_results).missing_skills
       /\ (pc = "parse_linkedin" /\ parser_output # None) => parser_output' = parser_output
      ]_vars

\* the lower-cased job description analyze_ats was given
JobLower == Lower(Val(job_text))

\* the places of the vocabulary whose term is a substring of the job text s
TermPlaces(s) == { k \in 1..Len(SKILL_KEYWORDS) : Contains(s, SKILL_KEYWORDS[k]) }

\* whether a number stands at i..d - 1 of s, followed by an optional '+',
\* optional whitespace and 'year'
YearsAt(s, i, d) ==
    /\ \A p \in i..(d - 1) : IsDigit(CharAt(s, p))
    /\ ~IsDigit(CharAt(s, d))
    /\ \E plus \in {0, 1} : \E e \in (d + plus)..(Len(s) + 1) :
          /\ plus = 1 => CharAt(s, d) = "+"
          /\ \A p \in (d + plus)..(e - 1) : InClass(CharAt(s, p), Whitespace)
          /\ StartsAt(s, e, "year")

\* the places of s where a number of years begins
YearsPlaces(s) ==
    { i \in 1..Len(s) :
        /\ IsDigit(CharAt(s, i)) /\ ~IsDigit(CharAt(s, i - 1))
        /\ \E d \in (i + 1)..(Len(s) + 1) : YearsAt(s, i, d) }

\* the number that begins at i
NumberAt(s, i) ==
    LET d == CHOOSE e \in (i + 1)..(Len(s) + 1) : YearsAt(s, i, e)
    IN  SubSeq(s, i, d - 1)

\* C22: the job keywords are the vocabulary terms that are substrings of the
\* lower-cased job text, in vocabulary order, followed by one keyword
\* '<N>+ years experience' for every match of the years pattern, in match
\* order (a repeated number gives a repeated keyword); a keyword of either
\* kind is matched exactly when it is a substring of the lower-cased CV text.
\* The job text 'Looking for a candidate with 5+ years Python and AWS
\* experience' gives ['python', 'aws', '5+ years experience'].
JobKeywordsInVocabularyThenMatchOrder ==
    ats_locals # None =>
        LET loc == Val(ats_locals)
            kws == loc.job_kws
            lower == JobLower
            cv == CvLower
            terms == TermPlaces(lower)
            years == YearsPlaces(lower)
            n == Cardinality(terms)
            m == Cardinality(years)
            place == [i \in 1..n |-> IF kws[i] \in Range(SKILL_KEYWORDS)
                                     THEN VocabularyIndex(kws[i]) ELSE 0]
            start == [j \in 1..m |-> KthOf(years, j)]
        IN  /\ Len(kws) = n + m
            /\ \A i \in 1..n : place[i] \in terms /\ kws[i] = SKILL_KEYWORDS[place[i]]
            /\ \A i \in 1..(n - 1) : place[i] < place[i + 1]
            /\ \A j \in 1..m : kws[n + j] = NumberAt(lower, start[j]) \o "+ years experience"
            /\ \A i \in 1..Len(kws) :
                  /\ Contains(cv, kws[i]) <=> kws[i] \in Range(loc.matched)
                  /\ ~Contains(cv, kws[i]) <=> kws[i] \in Range(loc.missing)
            /\ Val(job_text) = ShortJobText => kws = <<"python", "aws", "5+ years experience">>

\* a job text with three matches of the years pattern, two of them of the same
\* number: the repeated keyword is matched by the CV and the other is missing
JobKeywordsInVocabularyThenMatchOrderWitness ==
    /\ ats_locals # None
    /\ Val(job_text) = YearsJobText
    /\ Val(ats_locals).job_kws =
           <<"python", "sql", "go", "rust", "3+ years experience", "3+ years experience",
             "10+ years experience">>
    /\ Val(ats_locals).matched = <<"python", "go", "3+ years experience", "3+ years experience">>
    /\ Val(ats_locals).missing = <<"sql", "rust", "10+ years experience">>

\* whether the lower-cased CV text holds none of the words
Lacks(cv, words) == \A w \in words : ~Contains(cv, w)

\* which of the five rules after the skill tips fire, in the order of the code
RulesFired ==
    LET cv == CvLower
    IN  <<Lacks(cv, {"project"}),
          Lacks(cv, {"increased", "improved", "reduced", "grew", "%"}),
          Lacks(cv, {"certification", "certified"}),
          Lacks(cv, {"developed", "led", "designed", "built", "implemented"}),
          Len(Val(final_data).skills) < FewSkills>>

RuleTips == <<ProjectsTip, QuantifyTip, CertificationsTip, ActionVerbsTip, ExpandSkillsTip>>

\* C23: the cap of 8 tips cuts only when there are at least 4 missing skills
\* and all five rules fire; then there are exactly 8 tips, the 4 skill tips and
\* the Projects, quantify, certifications and action-verbs tips, and the tip
\* dropped is the expand-skills tip.  In every other case there is one skill
\* tip for each of the first 4 missing skills and one tip for each rule that
\* fires, and none is dropped.
CapDropsOnlyTheExpandSkillsTip ==
    (ats_results # None /\ pc = "optimized_cv") =>
        LET tips == Val(ats_results).tips
            missing == Val(ats_results).missing_skills
            fired == RulesFired
            nfired == Cardinality({ k \in 1..5 : fired[k] })
            nskill == IF Len(missing) < TipSkills THEN Len(missing) ELSE TipSkills
            IsSkillTip(tip) == StartsAt(tip, 1, "Add \"")
        IN  /\ \A i \in 1..Len(tips) : i <= nskill <=> IsSkillTip(tips[i])
            /\ IF Len(missing) >= TipSkills /\ nfired = 5
               THEN /\ Len(tips) = TipsCap
                    /\ SubSeq(tips, 5, 8) = SubSeq(RuleTips, 1, 4)
                    /\ ExpandSkillsTip \notin Range(tips)
               ELSE /\ Len(tips) = nskill + nfired
                    /\ \A k \in 1..5 : fired[k] <=> RuleTips[k] \in Range(tips)

\* an analysis with more than 4 missing skills in which all five rules fire:
\* of the nine tips the last, the expand-skills tip, is cut
CapDropsOnlyTheExpandSkillsTipWitness ==
    /\ ats_results # None /\ pc = "optimized_cv"
    /\ Len(Val(ats_results).missing_skills) > TipSkills
    /\ \A k \in 1..5 : RulesFired[k]
    /\ Len(Val(ats_results).tips) = TipsCap
    /\ Val(ats_results).tips[TipsCap] = ActionVerbsTip

\* the entries of the log that are calls of fn
CallsOf(fn) == { i \in 1..Len(calls) : calls[i].fn = fn }

\* the end of an experience header at i of s as the specification gives it:
\* work experience | professional experience | employment(\s*history)? |
\* experience(\s*&?\s*history)?, or 0
StatedHeaderEnd(s, i) ==
    LET employment == WordEnd(s, i, "employment")
        history == WordEnd(s, SkipSpace(s, employment), "history")
        experience == WordEnd(s, i, "experience")
    IN  IF TwoWordsEnd(s, i, "work", "experience") # 0 THEN TwoWordsEnd(s, i, "work", "experience")
        ELSE IF TwoWordsEnd(s, i, "professional", "experience") # 0
             THEN TwoWordsEnd(s, i, "professional", "experience")
        ELSE IF employment # 0 THEN (IF history # 0 THEN history ELSE employment)
        ELSE IF ExperienceHistoryEnd(s, i) # 0 THEN ExperienceHistoryEnd(s, i)
        ELSE experience

\* the text between the end of the first stated header and the next
\* following-section header after it ("" when there is no header)
StatedChunk(text) ==
    LET Hdr(i) == StatedHeaderEnd(text, i)
        h == FirstFrom(1, Len(text), Hdr)
        start == StatedHeaderEnd(text, h)
        Sec(k) == IF \E n \in 1..Len(NextSections) : WordEnd(text, k, NextSections[n]) # 0
                  THEN k ELSE 0
        next == FirstFrom(start, Len(text), Sec)
    IN  IF h = 0 THEN ""
        ELSE SubSeq(text, start, IF next = 0 THEN Len(text) ELSE next - 1)

\* C24: the entries of the experience are taken from the text strictly between
\* the end of the first experience header ('work experience', 'professional
\* experience', 'employment' with optional 'history', 'experience' alone or
\* with '& history', in any case) and the next following-section header after
\* it, or the end of the text; the placeholder entry is returned only when the
\* text holds no experience header at all.
ExperienceIsTheChunkAfterTheHeader ==
    \A c \in CallsOf("_extract_experience") :
        LET text == calls[c].arg
            out == calls[c].out
            Hdr(i) == StatedHeaderEnd(text, i)
            chunk == StatedChunk(text)
        IN  IF FirstFrom(1, Len(text), Hdr) = 0
            THEN out = PlaceholderExperience
            ELSE /\ out # PlaceholderExperience
                 /\ \A e \in 1..Len(out) :
                       Contains(chunk, out[e].title) /\ Contains(chunk, out[e].description)

\* the lines collected from the experience chunk of a text with a header (the
\* first 5 non-blank lines longer than 8 characters), each whole or cut to
\* its first `width` characters
CollectedLines(text, width) ==
    LET Hdr(i) == ExpHeaderEnd(text, i)
        lines == NonBlankLines(ExperienceChunk(text, FirstFrom(1, Len(text), Hdr)))
        Eligible(line) == Len(line) > 8
        eligible == SelectSeq(lines, Eligible)
        n == IF Len(eligible) < 5 THEN Len(eligible) ELSE 5
    IN  [k \in 1..n |-> IF Len(eligible[k]) > width THEN SubSeq(eligible[k], 1, width)
                        ELSE eligible[k]]

\* the titles and the non-empty descriptions of the entries, in their order
TitlesAndDescriptions(entries) ==
    Flatten([e \in 1..Len(entries) |->
        IF entries[e].description = "" THEN <<entries[e].title>>
        ELSE <<entries[e].title, entries[e].description>>])

\* whether the entries pair the lines left to right: the line after a title
\* is its description exactly when there is one and it is longer than 20
\* characters, and each line is used once
PairsLeftToRight(entries, lines) ==
    /\ TitlesAndDescriptions(entries) = lines
    /\ \A e \in 1..Len(entries) :
          LET place == Len(TitlesAndDescriptions(SubSeq(entries, 1, e - 1))) + 1
          IN  IF place + 1 <= Len(lines) /\ Len(lines[place + 1]) > 20
              THEN entries[e].description = lines[place + 1]
              ELSE entries[e].description = ""
    /\ Len(entries) \in 1..5

\* the calls of _extract_experience on a text in which a header is found and
\* at least one line is collected
CallsThatCollect ==
    { c \in CallsOf("_extract_experience") :
        LET text == calls[c].arg
            Hdr(i) == ExpHeaderEnd(text, i)
        IN  FirstFrom(1, Len(text), Hdr) # 0 /\ CollectedLines(text, Len(text)) # <<>> }

\* C25 as stated: the first 5 non-blank lines of the chunk longer than 8
\* characters are paired left to right, every collected line appears exactly
\* once, as a title or as a description, and the result has 1 to 5 entries.
CollectedLinesArePaired ==
    \A c \in CallsThatCollect :
        PairsLeftToRight(calls[c].out, CollectedLines(calls[c].arg, Len(calls[c].arg)))

\* C25, amended: the first 5 non-blank lines of the chunk longer than 8
\* characters, each cut to its first 120 characters, are paired left to right:
\* the line after a title is its description exactly when it exists and is
\* longer than 20 characters; every collected line, so cut, appears exactly
\* once, as a title or as a description, and the result has 1 to 5 entries.
CutCollectedLinesArePaired ==
    \A c \in CallsThatCollect :
        PairsLeftToRight(calls[c].out, CollectedLines(calls[c].arg, 120))

\* a chunk with more than 5 eligible lines: titles with and without a
\* description, and a line of more than 120 characters that is the fifth
\* collected line and becomes a title cut to 120
CutCollectedLinesArePairedWitness ==
    \E c \in CallsThatCollect :
        LET out == calls[c].out
        IN  /\ Len(out) = 3
            /\ out[1].description # "" /\ out[3].description = ""
            /\ Len(LongLine) > 120 /\ out[3].title = SubSeq(LongLine, 1, 120)
            /\ Contains(calls[c].arg, "Last line beyond the cap")

Dotted(x, y) == {x \o y, x \o y \o ".", x \o "." \o y, x \o "." \o y \o "."}

\* the degree keywords in the order of the code, each as the set of the
\* lower-case strings it matches
DegreeSpellings ==
    <<{"bachelor"}, {"master"}, {"phd"}, {"doctorate"}, Dotted("b", "s"), Dotted("m", "s"),
      Dotted("b", "a"), Dotted("m", "a"), {"mba"}>>

\* the context windows of the matches of one keyword in a text, in the order
\* of the matches; a match takes the longest spelling that stands at its place
WindowsOf(text, lower, spellings) ==
    LET At(i) == { v \in spellings : StartsAt(lower, i, v) }
        starts == { i \in 1..Len(text) : At(i) # {} }
        Window(i) ==
            LET len == CHOOSE n \in { Len(v) : v \in At(i) } : \A v \in At(i) : Len(v) <= n
                from == IF i - 40 < 1 THEN 1 ELSE i - 40
                to == IF i + len - 1 + 120 > Len(text) THEN Len(text) ELSE i + len - 1 + 120
            IN  Strip(SubSeq(text, from, to))
    IN  [k \in 1..Cardinality(starts) |-> Window(KthOf(starts, k))]

\* C27: the education is one context window (up to 40 characters before the
\* match and up to 120 after it, clipped to the text and trimmed) for every
\* match of every degree keyword, ordered by the keyword's place in the list
\* and then by the place of the match; a place of the text that several
\* keywords match is reported once for each; the single placeholder string is
\* returned exactly when no keyword matches.
EducationIsOneWindowPerMatch ==
    \A c \in CallsOf("_extract_education") :
        LET text == calls[c].arg
            lower == Lower(text)
            windows == Flatten([k \in 1..Len(DegreeSpellings) |->
                                   WindowsOf(text, lower, DegreeSpellings[k])])
        IN  calls[c].out = IF windows = <<>> THEN <<"Education details in CV">> ELSE windows

\* a text in which 'Master' is matched by the keyword master and by the
\* keyword m.a, which matches at an earlier place too: six windows, some of
\* them clipped at the start of the text and some of the full 40 + 120
\* characters around the match
EducationIsOneWindowPerMatchWitness ==
    \E c \in CallsOf("_extract_education") :
        LET out == calls[c].out
        IN  /\ Len(out) = 6
            /\ StartsAt(out[4], 1, "Uma Roy")
            /\ Contains(out[1], "Master") /\ Contains(out[5], "Master")
            /\ Len(out[1]) > 160
            /\ \A i \in 1..6 : Len(out[i]) < Len(calls[c].arg)

\* skills lists a profile with the same raw text may carry: none, the ones
\* parse_cv finds in the raw text, and the first 8 terms of the vocabulary
OtherSkillsLists ==
    {<<>>, _extract_skills(Val(final_data).raw_text), [k \in 1..8 |-> Title(SKILL_KEYWORDS[k])]}

\* a list without the expand-skills tip
WithoutExpandSkillsTip(tips) ==
    LET Other(tip) == tip # ExpandSkillsTip
    IN  SelectSeq(tips, Other)

\* C28: the analysis of a profile with the same raw text and the same job text
\* and any other skills list has the same score, the same matched_skills and
\* the same missing_skills, so the skills merged in from a fetched profile
\* change neither the score nor the lists; the tips differ at most in the
\* expand-skills tip.
ScoreIgnoresTheSkillsList ==
    (ats_results # None /\ pc = "optimized_cv") =>
        \A skills \in OtherSkillsLists :
            LET other == analyze_ats([Val(final_data) EXCEPT !.skills = skills], Val(job_text))
                result == Val(ats_results)
            IN  /\ other.score = result.score
                /\ other.matched_skills = result.matched_skills
                /\ other.missing_skills = result.missing_skills
                /\ WithoutExpandSkillsTip(other.tips) = WithoutExpandSkillsTip(result.tips)

\* an analysis of a merged profile whose skills list holds 'Aws', taken from
\* the fetched page, while 'aws' is a missing keyword; the profile has fewer
\* than 6 skills and gets the expand-skills tip, which a profile with the
\* same raw text and 8 skills does not get
ScoreIgnoresTheSkillsListWitness ==
    /\ ats_results # None /\ pc = "optimized_cv"
    /\ cv_data # None /\ linkedin_data # None
    /\ "Aws" \in Range(Val(final_data).skills)
    /\ "Aws" \notin Range(_extract_skills(Val(final_data).raw_text))
    /\ "aws" \in Range(Val(ats_results).missing_skills)
    /\ ExpandSkillsTip \in Range(Val(ats_results).tips)
    /\ \E skills \in OtherSkillsLists :
          ExpandSkillsTip \notin
              Range(analyze_ats([Val(final_data) EXCEPT !.skills = skills], Val(job_text)).tips)

\* the extreme scores of an analysis are exact: 100 with nothing missing, 0
\* with nothing matched
ExtremesAreExact(locals) ==
    /\ locals.score = 100 => locals.missing = <<>>
    /\ locals.score = 0 => locals.matched = <<>>

\* C29 as stated: with at least one job keyword, the score is 100 only if no
\* keyword is missing and 0 only if no keyword is matched, for keyword lists
\* of any length.
ExtremeScoresAreExact ==
    (ats_locals # None /\ Val(ats_locals).job_kws # <<>>) => ExtremesAreExact(Val(ats_locals))

\* C29, amended: with at least one and fewer than 200 job keywords, the score
\* is 100 only if no keyword is missing and 0 only if no keyword is matched.
ExtremeScoresAreExactBelow200 ==
    (ats_locals # None /\ Len(Val(ats_locals).job_kws) \in 1..199)
        => ExtremesAreExact(Val(ats_locals))

\* an analysis of 199 job keywords of which one is missing: the score is 99
ExtremeScoresAreExactBelow200Witness ==
    /\ ats_locals # None
    /\ Len(Val(ats_locals).job_kws) = 199
    /\ Len(Val(ats_locals).missing) = 1
    /\ Val(ats_locals).score = 99

\* what streamlit_app.py makes of the request: the profile it hands to the
\* scorer and the renderers (None when it stops before)
StreamlitProfile ==
    LET cv == IF cv_file = None \/ ParseCvRaises(Val(cv_file)) THEN None
              ELSE Some(parse_cv(Val(cv_file)))
        li == IF linkedin_url = "" \/ LinkedinUrlRejected(linkedin_url) \/ ~response.ok
              THEN None ELSE Some(LinkedinProfile(response))
    IN  IF (cv_file = None /\ linkedin_url = "") \/ (cv_file # None /\ cv = None) THEN None
        ELSE IF cv = None THEN li
        ELSE IF li = None THEN cv
        ELSE Some([Val(cv) EXCEPT !.skills = Deduplicate(Val(cv).skills \o Val(li).skills)])

\* whether streamlit_app.py fails to get the job description
StreamlitJobFails ==
    \/ job_input.mode = "file" /\ ~job_input.file.readable
    \/ job_input.mode = "url" /\ ~job_input.page.ok

\* the job text streamlit_app.py hands over (None when there is none)
StreamlitJobText ==
    LET text == CASE job_input.mode = "none" -> ""
                  [] job_input.mode = "text" -> Strip(job_input.text)
                  [] job_input.mode = "file" -> Strip(job_input.file.text)
                  [] job_input.mode = "url" -> FirstLines(job_input.page.text)
    IN  IF text = "" THEN None ELSE Some(text)

\* the request has ended with an error before anything was handed over
StoppedWithError ==
    /\ pc = "done"
    /\ messages # <<>> /\ messages[Len(messages)].level = "error"
    /\ ats_results = None /\ cv_pdf = None /\ portfolio_zip = None /\ roadmap_md = None
    /\ \A i \in 1..Len(calls) : calls[i].fn # "generate_optimized_cv"

\* C30: for the same request the two applications either both stop with an
\* error or both hand the same profile, with its skills in the same order,
\* and the same job text to the scorer and the renderers, and both run or
\* both skip the analysis: whichever application serves the request, it stops
\* when streamlit_app.py stops, and what it hands over is what
\* streamlit_app.py hands over.
ShellsAreEquivalent ==
    /\ pc = "analyze" =>
          /\ StreamlitProfile # None /\ ~StreamlitJobFails
          /\ final_data = StreamlitProfile
          /\ job_text = StreamlitJobText
    /\ pc = "optimized_cv" => (ats_results # None <=> StreamlitJobText # None)
    /\ StoppedWithError => (StreamlitProfile = None \/ StreamlitJobFails)

\* what a request that has ended holds when it is served alone
EndsAsAlone(my) ==
    LET alone == analyze_ats(my.cv_data, my.job_description)
    IN  /\ my.result = alone
        /\ my.roadmap = IF alone.missing_skills = <<>> THEN None
                        ELSE generate_skills_roadmap(alone.missing_skills, my.now)

\* C21: in every interleaving of the statements of two requests, each with its
\* own profile and result, no statement writes the skill vocabulary or the
\* roadmap table or the profile of a request, and a request that has ended
\* holds the score, the lists, the tips and the roadmap it gets when it is
\* served alone.
RequestsDoNotInterfere ==
    /\ [](pc = "workers" =>
            /\ module_globals = ModuleGlobals
            /\ \A w \in Workers : requests[w].pc = "done" => EndsAsAlone(requests[w]))
    /\ [][pc = "workers" =>
            \A w \in Workers : /\ requests'[w].cv_data = requests[w].cv_data
                               /\ requests'[w].job_description = requests[w].job_description]_vars

\* two different requests that have both ended, each after statements that
\* ran while the other was in flight, with roadmaps made on different days
RequestsDoNotInterfereWitness ==
    /\ pc = "workers"
    /\ \A w \in Workers : requests[w].pc = "done" /\ requests[w].overlapped
    /\ requests[1].job_description # requests[2].job_description
    /\ requests[1].roadmap # None /\ requests[2].roadmap # None
    /\ requests[1].now # requests[2].now

====
